---------------------------- MODULE Spec2Model ----------------------------
(***************************************************************************)
(* The task installer of ai_init (claude_init/setup_claude_tasks.py,       *)
(* class ClaudeTasksSetup) as a state machine over the target directory.   *)
(*                                                                         *)
(* A file's content is a sequence of tokens.  A token is a piece of text   *)
(* that holds no newline, or the newline itself ("\n").  The substrings    *)
(* the code searches for ("claude_tasks", "BDD+TDD", "# CLAUDE.md",        *)
(* "[DATE]") are tokens of their own, so that a substring test of the code *)
(* is a membership test on tokens and a prefix test is a test on the first *)
(* token.                                                                  *)
(***************************************************************************)
EXTENDS Integers, Sequences, FiniteSets, TLC

\* Number of installer runs explored.
MaxRuns == 2
\* Number of edits the user makes to the target between runs.
MaxEdits == 1
\* Number of calendar days the clock can show (datetime.now()).
MaxDay == 2
\* Where the three entry points share a target: a command is entered only
\* while fewer than this many installer processes have been started.
MaxStarted == 1

NL == "\n"
TITLE == "# CLAUDE.md"
CLAUDE_TASKS == "claude_tasks"
BDD_TDD == "BDD+TDD"
DATE == "[DATE]"

---------------------------------------------------------------------------
\* Text helpers (Python str operations on token sequences).

\* needle in content
Contains(content, needle) == \E i \in 1..Len(content) : content[i] = needle

\* content.startswith(prefix)
StartsWith(content, prefix) == Len(content) > 0 /\ content[1] = prefix

\* content.endswith("\n")
EndsWithNewline(content) == Len(content) > 0 /\ content[Len(content)] = NL

\* content.find("\n"): the 0-based index of the first newline, -1 when none.
Find(content, needle) ==
    IF Contains(content, needle)
    THEN (CHOOSE i \in 1..Len(content) :
             /\ content[i] = needle
             /\ \A j \in 1..(i - 1) : content[j] # needle) - 1
    ELSE -1

\* content[start:] with a 0-based start >= 0
SliceFrom(content, start) == SubSeq(content, start + 1, Len(content))

\* content.replace(old, new) for a one-token old
Replace(content, old, new) ==
    [i \in 1..Len(content) |-> IF content[i] = old THEN new ELSE content[i]]

\* datetime.now().strftime("%Y-%m-%d") on day d of the clock
DateText == <<"2025-07-01", "2025-07-02", "2025-07-03", "2025-07-04">>
StrfTime(d) == DateText[d]

\* "\n".join(lines) for one-token lines
RECURSIVE JoinLines(_)
JoinLines(lines) ==
    IF Len(lines) = 0 THEN <<>>
    ELSE IF Len(lines) = 1 THEN lines[1]
    ELSE lines[1] \o <<NL>> \o JoinLines(Tail(lines))

\* The lines of a content (str.split("\n")), as a sequence of token sequences.
RECURSIVE Lines(_)
Lines(content) ==
    IF ~ Contains(content, NL) THEN <<content>>
    ELSE <<SubSeq(content, 1, Find(content, NL))>>
             \o Lines(SliceFrom(content, Find(content, NL) + 1))

\* Number of lines of content equal to line.
CountLines(content, line) ==
    Cardinality({i \in 1..Len(Lines(content)) : Lines(content)[i] = line})

\* Number of tokens of content equal to tok.
CountToken(content, tok) ==
    Cardinality({i \in 1..Len(content) : content[i] = tok})

---------------------------------------------------------------------------
\* Paths of the target and the installer's texts.

\* A path of the target is <<directory, file name>>; "." is the target itself.
CLAUDE_MD == <<".", "CLAUDE.md">>
CLAUDE_MD_BACKUP == <<".", "CLAUDE.md.backup">>
GITIGNORE == <<".", ".gitignore">>
CUCUMBER_JS == <<".", "cucumber.js">>
ACTIVE_TASKS == <<"claude_tasks/active", "ACTIVE_TASKS.md">>
TODO_LIST == <<"claude_tasks/todo", "TODO_LIST.md">>
TODO_CMD == <<"claude_tasks/todo", "todo.md">>
BEHAVIORS_README == <<"claude_tasks/behaviors", "README.md">>
EXAMPLE_FEATURE == <<"claude_tasks/behaviors/features", "example.feature">>
COMMON_STEPS == <<"claude_tasks/behaviors/step_definitions", "common_steps.js">>
CMD_REFRESH == <<".claude/commands", "refresh.md">>
CMD_TODO == <<".claude/commands", "todo.md">>

\* directories of _create_directory_structure, in its order
directories ==
    << "claude_tasks", "claude_tasks/active", "claude_tasks/finished",
       "claude_tasks/todo", "claude_tasks/behaviors",
       "claude_tasks/behaviors/features",
       "claude_tasks/behaviors/step_definitions",
       "claude_tasks/behaviors/reports", ".claude", ".claude/commands" >>

Range(seq) == {seq[i] : i \in 1..Len(seq)}

\* The keys of EMBEDDED_TEMPLATES, in dictionary order.
EmbeddedNames ==
    << "QUICK_REFERENCE.md", "PRINCIPLES_QUICK_CARD.md",
       "ACTIVE_TASKS.md", "BDD_PROCESS.md" >>

\* EMBEDDED_TEMPLATES[name]: the first line, the date line where the text has
\* one, and the fragments of the text that the installer or its users look for.
EMBEDDED_TEMPLATES(name) ==
    CASE name = "QUICK_REFERENCE.md" ->
           << "# Task Management Quick Reference", NL,
              "cat ", CLAUDE_TASKS, "/active/ACTIVE_TASKS.md", NL,
              "Start a New Task (", BDD_TDD, " Process)", NL >>
      [] name = "PRINCIPLES_QUICK_CARD.md" ->
           << "# Development Principles Quick Card", NL >>
      [] name = "ACTIVE_TASKS.md" ->
           << "# Active Tasks", NL, "*Last Updated: ", DATE, "*", NL,
              "### Task 1: ", "[Example Task]", NL >>
      [] name = "BDD_PROCESS.md" ->
           << "# ", BDD_TDD, " Development Process", NL,
              "- Review ", CLAUDE_TASKS, "/active/ACTIVE_TASKS.md", NL >>

\* TemplateTarget without the case of ACTIVE_TASKS.md: every template goes to
\* claude_tasks/.
TemplateTargetFlat(name) == <<"claude_tasks", name>>

\* target_file of _create_from_templates for a key of EMBEDDED_TEMPLATES
TemplateTarget(name) ==
    IF name = "ACTIVE_TASKS.md" THEN <<"claude_tasks/active", name>>
    ELSE IF name = "BDD_PROCESS.md" THEN <<"claude_tasks", name>>
    ELSE <<"claude_tasks", name>>

todo_list_content ==
    << "# Todo List", NL, "*Last Updated: ", DATE, "*", NL >>
todo_command_content ==
    << "# Add Todo Item", NL,
       "Read current todo list from ", CLAUDE_TASKS, "/todo/TODO_LIST.md", NL >>
example_feature_content == << "Feature: Example AI Project Behavior", NL >>
step_definitions_content == << "// Step Definitions Template", NL >>
cucumber_config_content ==
    << "// Cucumber.js Configuration", NL,
       "'", CLAUDE_TASKS, "/behaviors/features/**/*.feature'", NL >>
behaviors_readme_content == << "# Behaviors Directory", NL >>
refresh_content ==
    << "# Refresh Development Context", NL,
       "Read ", CLAUDE_TASKS, "/QUICK_REFERENCE.md for TDD workflow", NL >>
todo_content ==
    << "# Add Todo Item", NL,
       "Read current todo list from ", CLAUDE_TASKS, "/todo/TODO_LIST.md", NL >>

\* reference_section without the name of the methodology.
ReferenceSectionNoMethodology ==
    << TITLE, NL, NL, "## Claude Development Process", NL,
       "This project uses the Claude Task Management System", NL,
       "- ", CLAUDE_TASKS, "/QUICK_REFERENCE.md - Quick commands", NL,
       "---", NL, NL >>

\* reference_section of _update_existing_claude_md
reference_section ==
    << TITLE, NL, NL, "## Claude Development Process", NL,
       "This project uses the Claude Task Management System with ", BDD_TDD,
       " methodology for AI-assisted development.", NL,
       "- ", CLAUDE_TASKS, "/QUICK_REFERENCE.md - Quick commands", NL,
       "---", NL, NL >>

\* _get_claude_md_template()
ClaudeMdTemplate ==
    << TITLE, NL, NL,
       "This project follows the Claude Task Management System with ", BDD_TDD,
       " methodology:", NL,
       "- ", CLAUDE_TASKS, "/QUICK_REFERENCE.md - Quick commands", NL,
       "[TODO: Add project description]", NL >>

\* entries_to_add of _update_gitignore
entries_to_add ==
    << <<NL, "# Claude task management">>, <<"*.backup">>, <<"CLAUDE.md.backup">> >>

\* files_to_copy of _copy_files
files_to_copy ==
    << "QUICK_REFERENCE.md", "PRINCIPLES_QUICK_CARD.md", "BDD_PROCESS.md",
       "DEVELOPMENT_PROCESS.md", "PAIR_PROGRAMMING_WITH_CLAUDE.md",
       "UNIFIED_PRINCIPLES.md", "SESSION_STARTER.md", "TASK_TEMPLATE.md" >>

---------------------------------------------------------------------------
\* The source of the templates: what the --source path, the directory of the
\* installer script or the cloned repository holds.
\*   exists     the path exists (a clone: the repository was cloned)
\*   sub        it has a claude_tasks subdirectory
\*   docs       the file names of source_path
\*   active, todo_list, todo_cmd, readme
\*              source_path has active/ACTIVE_TASKS.md, todo/TODO_LIST.md,
\*              todo/todo.md, behaviors/README.md
\*   cmds       the file names of source_path.parent/.claude/commands
\*   features, steps
\*              the file names of behaviors/features, behaviors/step_definitions
\*   claude_md  the path has a CLAUDE.md

TreeMissing ==
    [exists |-> FALSE, sub |-> FALSE, docs |-> {}, active |-> FALSE,
     todo_list |-> FALSE, todo_cmd |-> FALSE, readme |-> FALSE, cmds |-> {},
     features |-> {}, steps |-> {}, claude_md |-> FALSE]

\* a directory that holds nothing the installer looks for
TreeBare == [TreeMissing EXCEPT !.exists = TRUE, !.docs = {"NOTES.md"}]

\* a claude_tasks directory with a single document
TreePartial ==
    [TreeMissing EXCEPT !.exists = TRUE, !.sub = TRUE,
                        !.docs = {"QUICK_REFERENCE.md"}]

\* a complete source, with files of other names beside the known ones
TreeFull ==
    [exists |-> TRUE, sub |-> TRUE,
     docs |-> Range(files_to_copy) \cup {"NOTES.md"},
     active |-> TRUE, todo_list |-> TRUE, todo_cmd |-> TRUE, readme |-> TRUE,
     cmds |-> {"refresh.md", "deploy.md", "run.sh"},
     features |-> {"login.feature", "notes.txt"},
     steps |-> {"login_steps.js", "helper.ts"},
     claude_md |-> TRUE]

\* The suffix of a file name (what glob("*.md") and the like match on).
Suffix(name) ==
    CASE name \in {"refresh.md", "deploy.md", "todo.md", "NOTES.md"} -> ".md"
      [] name \in {"login.feature", "example.feature"} -> ".feature"
      [] name \in {"login_steps.js", "common_steps.js"} -> ".js"
      [] OTHER -> "other"

\* directory.glob("*" + suffix)
Glob(names, suffix) == {n \in names : Suffix(n) = suffix}

\* The content of a file of the source.
SourceText(rel) == << "source copy of ", rel, NL >>

---------------------------------------------------------------------------
\* The installer's methods as functions of st = [fs, out]: fs maps each file
\* of the target to its content, out is the set of lines printed.

Exists(st, path) == path \in DOMAIN st.fs

\* print(...)
Say(st, kind, what) == [st EXCEPT !.out = @ \cup {<<kind, what>>}]

\* path.write_text(content), shutil.copy2(src, path)
WriteText(st, path, content) == [st EXCEPT !.fs = (path :> content) @@ @]

\* WriteMissing without its test: the file is written whether it exists or not.
WriteMissingUnguarded(st, path, content, frc, kind) ==
    Say(WriteText(st, path, content), kind, path)

\* "if not target.exists() or self.force: write; print"
WriteMissing(st, path, content, frc, kind) ==
    IF ~ Exists(st, path) \/ frc
    THEN Say(WriteText(st, path, content), kind, path)
    ELSE st

\* WriteOrSkipGuard without "and not self.force": an existing file is skipped
\* under --force too.
WriteOrSkipGuardNoForce(st, path, frc) == Exists(st, path)

\* "if target.exists() and not self.force: print skip; else: write; print"
WriteOrSkipGuard(st, path, frc) == Exists(st, path) /\ ~ frc
WriteOrSkip(st, path, content, frc, kind) ==
    IF WriteOrSkipGuard(st, path, frc)
    THEN Say(st, "Skipping existing", path)
    ELSE Say(WriteText(st, path, content), kind, path)

create_todo_files(st, frc, day) ==
    LET a == WriteMissing(st, TODO_LIST,
                          Replace(todo_list_content, DATE, StrfTime(day)),
                          frc, "Created")
    IN  WriteMissing(a, CMD_TODO, todo_command_content, frc, "Created")

create_bdd_files(st, frc) ==
    LET a == WriteMissing(st, EXAMPLE_FEATURE, example_feature_content, frc, "Created")
        b == WriteMissing(a, COMMON_STEPS, step_definitions_content, frc, "Created")
        c == WriteMissing(b, CUCUMBER_JS, cucumber_config_content, frc, "Created")
    IN  WriteMissing(c, BEHAVIORS_README, behaviors_readme_content, frc, "Created")

create_claude_commands(st, frc) ==
    LET a == WriteOrSkip(st, CMD_REFRESH, refresh_content, frc, "Created")
    IN  WriteOrSkip(a, CMD_TODO, todo_content, frc, "Created")

\* the loop over EMBEDDED_TEMPLATES.items(), from its i-th key on
RECURSIVE WriteEmbedded(_, _, _, _)
WriteEmbedded(st, i, frc, day) ==
    IF i > Len(EmbeddedNames) THEN st
    ELSE WriteEmbedded(
             WriteOrSkip(st, TemplateTarget(EmbeddedNames[i]),
                         Replace(EMBEDDED_TEMPLATES(EmbeddedNames[i]), DATE,
                                 StrfTime(day)),
                         frc, "Created"),
             i + 1, frc, day)

create_from_templates(st, frc, day) ==
    create_claude_commands(
        create_bdd_files(
            create_todo_files(WriteEmbedded(st, 1, frc, day), frc, day),
            frc),
        frc)

\* the loop "for file_name in files_to_copy", from its i-th name on
RECURSIVE CopyListed(_, _, _, _)
CopyListed(st, i, tree, frc) ==
    IF i > Len(files_to_copy) THEN st
    ELSE CopyListed(
             IF files_to_copy[i] \in tree.docs
             THEN WriteOrSkip(st, <<"claude_tasks", files_to_copy[i]>>,
                              SourceText(files_to_copy[i]), frc, "Copied")
             ELSE st,
             i + 1, tree, frc)

\* a loop "for f in directory.glob(pattern)": the files are distinct, so the
\* order of the copies does not show in the result
RECURSIVE CopyGlob(_, _, _, _)
CopyGlob(st, names, dir, frc) ==
    IF names = {} THEN st
    ELSE LET n == CHOOSE x \in names : TRUE
         IN  CopyGlob(WriteMissing(st, <<dir, n>>, SourceText(n), frc, "Copied"),
                      names \ {n}, dir, frc)

\* source_path.exists() at the head of _copy_files: source_path is the claude_tasks
\* directory of a clone, and of a local path that has one; else the local path
SourcePathExists(src, tree) == IF src = "url" THEN tree.sub ELSE tree.exists

copy_files_body(st, tree, frc) ==
    LET a == CopyListed(st, 1, tree, frc)
        b == IF tree.active
             THEN WriteMissing(a, ACTIVE_TASKS, SourceText("active/ACTIVE_TASKS.md"),
                               frc, "Copied")
             ELSE a
        c == IF tree.todo_list
             THEN WriteMissing(b, TODO_LIST, SourceText("todo/TODO_LIST.md"),
                               frc, "Copied")
             ELSE b
        d == IF tree.todo_cmd
             THEN WriteMissing(c, TODO_CMD, SourceText("todo/todo.md"), frc, "Copied")
             ELSE c
        e == CopyGlob(d, Glob(tree.cmds, ".md"), ".claude/commands", frc)
        f == IF tree.readme
             THEN WriteMissing(e, BEHAVIORS_README, SourceText("behaviors/README.md"),
                               frc, "Copied")
             ELSE e
        g == CopyGlob(f, Glob(tree.features, ".feature"),
                      "claude_tasks/behaviors/features", frc)
    IN  CopyGlob(g, Glob(tree.steps, ".js"),
                 "claude_tasks/behaviors/step_definitions", frc)

copy_files(st, src, tree, frc, day) ==
    IF ~ SourcePathExists(src, tree)
    THEN create_from_templates(
             Say(st, "Source claude_tasks not found", <<".", "claude_tasks">>),
             frc, day)
    ELSE copy_files_body(st, tree, frc)

\* HasMarker with the second text misspelt.
HasMarkerTypo(content) ==
    Contains(content, CLAUDE_TASKS) /\ Contains(content, "TDD+BDD")

\* the test of _update_existing_claude_md for a file that already refers to the
\* task system
HasMarker(content) == Contains(content, CLAUDE_TASKS) /\ Contains(content, BDD_TDD)

\* "Remove existing header if present"
RemoveHeader(content) ==
    IF StartsWith(content, TITLE)
    THEN SliceFrom(content, Find(content, NL) + 1)
    ELSE content

\* new_content of _update_existing_claude_md
NewContent(existing_content) == reference_section \o RemoveHeader(existing_content)

\* "if not self.force: backup"
BackupGuard(frc) == ~ frc

update_existing_claude_md(st, frc) ==
    LET existing_content == st.fs[CLAUDE_MD]
    IN  IF HasMarker(existing_content)
        THEN Say(st, "already references", CLAUDE_MD)
        ELSE LET a == IF BackupGuard(frc)
                      THEN Say(WriteText(st, CLAUDE_MD_BACKUP, existing_content),
                               "Backed up to", CLAUDE_MD_BACKUP)
                      ELSE st
             IN  Say(WriteText(a, CLAUDE_MD, NewContent(existing_content)),
                     "Updated", CLAUDE_MD)

\* template_path of _create_new_claude_md is set
HasTemplatePath(src, tree) == src \in {"local", "script_dir"} /\ tree.claude_md

create_new_claude_md(st, src, tree) ==
    Say(WriteText(st, CLAUDE_MD,
                  IF HasTemplatePath(src, tree) THEN SourceText("CLAUDE.md")
                  ELSE ClaudeMdTemplate),
        "Created", CLAUDE_MD)

handle_claude_md(st, src, tree, frc) ==
    IF Exists(st, CLAUDE_MD)
    THEN update_existing_claude_md(st, frc)
    ELSE create_new_claude_md(st, src, tree)

\* The test of _update_gitignore for a .gitignore that has the entries already.
GitignoreConfigured(content) == Contains(content, CLAUDE_TASKS)

update_gitignore(st) ==
    IF Exists(st, GITIGNORE)
    THEN LET content == st.fs[GITIGNORE]
         IN  IF GitignoreConfigured(content)
             THEN Say(st, "already configured", GITIGNORE)
             ELSE Say(WriteText(st, GITIGNORE,
                                (IF EndsWithNewline(content) THEN content
                                 ELSE content \o <<NL>>)
                                    \o JoinLines(entries_to_add) \o <<NL>>),
                      "Updated", GITIGNORE)
    ELSE Say(WriteText(st, GITIGNORE, JoinLines(entries_to_add) \o <<NL>>),
             "Created", GITIGNORE)

---------------------------------------------------------------------------
\* The dashboard installer (setup_test_dashboard.py, class TestDashboardSetup):
\* its texts and its methods on test-dashboard-module and .gitignore.

\* self.target.name
TARGET_NAME == "myproject"
DASHBOARD_MODULE == "test-dashboard-module"
DEFAULT_PORT == 8085
CUSTOM_PORT == 3000

\* self.repo_ssh and self.repo_url
REPO_SSH == "git@github.com:foolishimp/test_dd_dashboard.git"
REPO_URL == "https://github.com/foolishimp/test_dd_dashboard.git"

\* exclude_patterns of _copy_dashboard_files
exclude_patterns == {".git", ".gitignore", "__pycache__", "node_modules", ".DS_Store"}

\* entries_to_add of TestDashboardSetup._update_gitignore
dashboard_entries_to_add ==
    << << NL, "# Test Dashboard Module (from test_dd_dashboard)" >>,
       << DASHBOARD_MODULE, "/node_modules/" >>,
       << DASHBOARD_MODULE, "/package-lock.json" >>,
       << DASHBOARD_MODULE, "/test-registry.json" >>,
       << DASHBOARD_MODULE, "/*.log" >> >>

\* A package.json: whether it parses as JSON, and the object it holds (a
\* function of its keys; a name is a sequence of pieces of text).
PackageJson(obj) == [json |-> TRUE, data |-> obj]
PackageNotJson == [json |-> FALSE, data |-> [description |-> << "{ not json" >>]]

\* "PORT || 8085" is a token of server.js.
PortText(port) == IF port = DEFAULT_PORT THEN "PORT || 8085" ELSE "PORT || 3000"
ServerJs == << "const port = process.env.", PortText(DEFAULT_PORT), ";", NL >>

File(content) == [kind |-> "file", content |-> content]
Dir(content) == [kind |-> "dir", content |-> content]

\* What a clone of the repository can hold: item name -> item.
RepoFull ==
    [n \in {"package.json", "server.js", "public", ".git", ".gitignore",
            "node_modules"} |->
        CASE n = "package.json" ->
                 File(PackageJson([name |-> << "test-dd-dashboard" >>,
                                   description |-> << "TDD dashboard" >>]))
          [] n = "server.js" -> File(ServerJs)
          [] n = "public" -> Dir(<< "index.html" >>)
          [] n = ".git" -> Dir(<< "HEAD" >>)
          [] n = ".gitignore" -> File(<< "node_modules/", NL >>)
          [] n = "node_modules" -> Dir(<< "left-pad" >>)]

\* a repository without a package.json
RepoNoPackage ==
    [n \in {"server.js", ".git"} |->
        IF n = "server.js" THEN File(ServerJs) ELSE Dir(<< "HEAD" >>)]

\* a repository whose package.json has no name and is not valid JSON
RepoBadPackage ==
    [n \in {"package.json", ".git"} |->
        IF n = "package.json" THEN File(PackageNotJson) ELSE Dir(<< "HEAD" >>)]

NoItems == [n \in {} |-> File(<< >>)]

\* test-dashboard-module: whether the directory exists, and its items.
NoDashboard == [exists |-> FALSE, items |-> NoItems]

\* _copy_dashboard_files(source_dir) into a test-dashboard-module dd
copy_dashboard_files(dd, source_dir) ==
    [exists |-> TRUE,
     items |-> [n \in (DOMAIN dd.items \cup (DOMAIN source_dir \ exclude_patterns)) |->
                   IF n \in DOMAIN source_dir \ exclude_patterns
                   THEN source_dir[n]
                   ELSE dd.items[n]]]

\* package_data after the updates of _update_dashboard_config
PatchPackage(obj) ==
    LET original_name == IF "name" \in DOMAIN obj THEN obj["name"]
                         ELSE << "test-dd-dashboard" >>
        named == ("name" :> << TARGET_NAME, "-test-dashboard" >>)
                 @@ ("description" :> << "Test dashboard for ", TARGET_NAME,
                                         " project (from " >> \o original_name
                                         \o << ")" >>)
                 @@ obj
    IN  IF "repository" \in DOMAIN obj THEN named
        ELSE ("repository" :> << "git", REPO_URL >>) @@ named

\* _update_dashboard_config on a test-dashboard-module dd
update_dashboard_config(dd, port) ==
    LET a == IF "package.json" \in DOMAIN dd.items
                /\ dd.items["package.json"].content.json
             THEN [dd EXCEPT !.items["package.json"].content.data = PatchPackage(@)]
             ELSE dd
    IN  IF "server.js" \in DOMAIN a.items /\ port # DEFAULT_PORT
        THEN [a EXCEPT !.items["server.js"].content =
                           Replace(@, PortText(DEFAULT_PORT), PortText(port))]
        ELSE a

\* what a successful "npm install" leaves in test-dashboard-module
NpmInstalled(dd) ==
    [dd EXCEPT !.items = ("node_modules" :> Dir(<< "express" >>))
                         @@ ("package-lock.json" :> File(<< "{}" >>)) @@ @]

\* DashboardConfigured that never finds the entries.
DashboardConfiguredNever(content) == FALSE

\* The test of TestDashboardSetup._update_gitignore for a .gitignore that has
\* the entries already.
DashboardConfigured(content) == Contains(content, DASHBOARD_MODULE)

\* TestDashboardSetup._update_gitignore
dashboard_update_gitignore(st) ==
    IF Exists(st, GITIGNORE)
    THEN LET content == st.fs[GITIGNORE]
         IN  IF DashboardConfigured(content)
             THEN Say(st, "already configured", GITIGNORE)
             ELSE Say(WriteText(st, GITIGNORE,
                                (IF EndsWithNewline(content) THEN content
                                 ELSE content \o <<NL>>)
                                    \o JoinLines(dashboard_entries_to_add) \o <<NL>>),
                      "Updated", GITIGNORE)
    ELSE Say(WriteText(st, GITIGNORE,
                       JoinLines(dashboard_entries_to_add) \o <<NL>>),
             "Created", GITIGNORE)

---------------------------------------------------------------------------
\* The state: the target directory, the installer as shipped, and one run of
\* ClaudeTasksSetup at a time.

VARIABLES
    dirs,                \* the directories of the target that exist
    files,               \* the files of the target: path -> content
    shipped,             \* the directory of the installer script, as a source tree
    today,               \* the day the clock shows
    pc,                  \* where the run is; "idle" and "exit" between runs
    arg_source,          \* --source: "none", "local" or "url"
    source,              \* self.source
    force,               \* self.force
    no_git,              \* self.no_git
    tree,                \* what self.source holds
    clone_ok,            \* whether git clone succeeds
    claude_tasks_exists, \* local of run()
    claude_md_exists,    \* local of run()
    temp_dir,            \* the scratch directory of the clone exists
    raised,              \* an exception is on its way to main()
    exit_code,           \* the exit code of the last run
    out,                 \* the lines the run has printed
    files0,              \* the files of the target when the run started
    dirs0,               \* the directories of the target when the run started
    prev,                \* the run before this one, when nothing came between
    created,             \* the paths that earlier runs wrote
    runs,                \* the number of runs started
    edits                \* the number of edits the user made

\* One run of TestDashboardSetup (setup_test_dashboard.py) at a time.
VARIABLES
    dashboard_dir,       \* test-dashboard-module of the target: exists, items
    d_pc,                \* where the dashboard run is
    d_force,             \* self.force
    d_no_git,            \* self.no_git
    d_offline,           \* self.offline
    d_version,           \* self.version is set
    d_port,              \* self.port
    dashboard_exists,    \* local of run()
    clone_url,           \* local of _clone_dashboard: "ssh", "https"; "none" before
    d_temp_dir,          \* the scratch directory of _clone_dashboard exists
    d_repo,              \* what the scratch directory holds
    d_raised,            \* an exception is on its way to main()
    d_exit_code,         \* the exit code of the last dashboard run
    d_ops,               \* the external commands the run has started, in order
    d_out,               \* the lines the dashboard run has printed
    d_files0,            \* the files of the target when the dashboard run started
    d_dir0,              \* test-dashboard-module when the dashboard run started
    d_runs               \* the number of dashboard runs started

\* One run of AIInitSetup (setup_all.py) at a time.
VARIABLES
    o_pc,                \* where the orchestrator is
    o_force,             \* self.force
    o_no_git,            \* self.no_git
    claude_only,         \* self.claude_only
    dashboard_only,      \* self.dashboard_only
    dashboard_port,      \* self.dashboard_port
    claude_installer,    \* self.claude_installer.exists()
    dashboard_installer, \* self.dashboard_installer.exists()
    success,             \* local of run()
    o_exit_code,         \* the exit code of the last orchestrator run
    o_started,           \* the sub-installers run() has called, in order
    o_results,           \* what the calls returned, in order
    o_files0,            \* the files of the target when the orchestrator started
    o_dirs0,             \* the directories of the target at that time
    o_dir0,              \* test-dashboard-module at that time
    o_runs               \* the number of orchestrator runs started

DashboardVars ==
    << dashboard_dir, d_pc, d_force, d_no_git, d_offline, d_version, d_port,
       dashboard_exists, clone_url, d_temp_dir, d_repo, d_raised, d_exit_code,
       d_ops, d_out, d_files0, d_dir0, d_runs >>

OrchestratorVars ==
    << o_pc, o_force, o_no_git, claude_only, dashboard_only, dashboard_port,
       claude_installer, dashboard_installer, success, o_exit_code, o_started,
       o_results, o_files0, o_dirs0, o_dir0, o_runs >>

\* What the task installer never touches.
OtherVars == << DashboardVars, OrchestratorVars >>

vars ==
    << dirs, files, shipped, today, pc, arg_source, source, force, no_git, tree,
       clone_ok, claude_tasks_exists, claude_md_exists, temp_dir, raised,
       exit_code, out, files0, dirs0, prev, created, runs, edits, OtherVars >>

NoRun == [ran |-> FALSE]
EmptyFiles == [path \in {} |-> <<>>]

\* Contents a CLAUDE.md of the user can have.
ClaudeMdInputs ==
    { << "Existing content", NL >>,
      << TITLE, " for project X", NL, "Existing content", NL >>,
      << "Tasks are in ", CLAUDE_TASKS, ", the process is ", BDD_TDD, NL >> }

\* Contents a .gitignore of the user can have.
GitignoreInputs ==
    { << "node_modules/" >>,
      << CLAUDE_TASKS, "/finished/", NL >> }

\* What the user writes into another file.
UserText == << "edited by the user", NL >>

\* The files the user edits or removes between runs.
EditablePaths == { CLAUDE_MD, GITIGNORE, ACTIVE_TASKS, CUCUMBER_JS }

UserContents(path) ==
    IF path = CLAUDE_MD THEN ClaudeMdInputs
    ELSE IF path = GITIGNORE THEN GitignoreInputs
    ELSE { UserText }

\* The targets a first run can meet.
InitialTargets ==
    { [dirs |-> {}, files |-> EmptyFiles],
      [dirs |-> {},
       files |-> (CLAUDE_MD :> << TITLE, NL, "Existing content" >>)
                 @@ (CUCUMBER_JS :> UserText)
                 @@ (GITIGNORE :> << "node_modules/", NL >>)],
      [dirs |-> {},
       files |-> (CLAUDE_MD :> << TITLE >>) @@ (GITIGNORE :> << "node_modules/" >>)],
      [dirs |-> {"claude_tasks"},
       files |-> (CLAUDE_MD :> << "See ", CLAUDE_TASKS, " for the tasks", NL >>)
                 @@ (GITIGNORE :> << CLAUDE_TASKS, "/finished/", NL >>)],
      [dirs |-> {"claude_tasks"},
       files |-> (GITIGNORE :> << "node_modules/", NL >>)] }

\* The trees the directory of the installer script can be: without a claude_tasks
\* directory, or with one.
ShippedTrees == { TreeBare, TreeFull }

\* The trees a --source path, and a cloned repository, can be.
LocalTrees == { TreeMissing, TreePartial, TreeFull }
ClonedTrees == { TreeBare, TreeFull }

\* No run of the task installer has been started.
InitRun ==
    /\ today = 1
    /\ pc = "idle"
    /\ arg_source = "none"
    /\ source = "none"
    /\ force = FALSE
    /\ no_git = FALSE
    /\ tree = TreeMissing
    /\ clone_ok = TRUE
    /\ claude_tasks_exists = FALSE
    /\ claude_md_exists = FALSE
    /\ temp_dir = FALSE
    /\ raised = FALSE
    /\ exit_code = 0
    /\ out = {}
    /\ files0 = files
    /\ dirs0 = dirs
    /\ prev = NoRun
    /\ created = {}
    /\ runs = 0
    /\ edits = 0

\* No dashboard run has been started.
InitDashboard ==
    /\ d_pc = "idle"
    /\ d_force = FALSE
    /\ d_no_git = FALSE
    /\ d_offline = FALSE
    /\ d_version = FALSE
    /\ d_port = DEFAULT_PORT
    /\ dashboard_exists = FALSE
    /\ clone_url = "none"
    /\ d_temp_dir = FALSE
    /\ d_repo = NoItems
    /\ d_raised = FALSE
    /\ d_exit_code = 0
    /\ d_ops = << >>
    /\ d_out = {}
    /\ d_files0 = EmptyFiles
    /\ d_dir0 = NoDashboard
    /\ d_runs = 0

\* No orchestrator run has been started.
InitOrchestrator ==
    /\ o_pc = "idle"
    /\ o_force = FALSE
    /\ o_no_git = FALSE
    /\ claude_only = FALSE
    /\ dashboard_only = FALSE
    /\ dashboard_port = DEFAULT_PORT
    /\ claude_installer = TRUE
    /\ dashboard_installer = TRUE
    /\ success = TRUE
    /\ o_exit_code = 0
    /\ o_started = << >>
    /\ o_results = << >>
    /\ o_files0 = EmptyFiles
    /\ o_dirs0 = {}
    /\ o_dir0 = NoDashboard
    /\ o_runs = 0

\* The task installer alone, on a target without a test-dashboard-module.
Init ==
    /\ \E t \in InitialTargets : dirs = t.dirs /\ files = t.files
    /\ shipped \in ShippedTrees
    /\ InitRun
    /\ dashboard_dir = NoDashboard
    /\ InitDashboard
    /\ InitOrchestrator

BetweenRuns == pc \in {"idle", "exit"}

\* The paths a run reports as written.
Written(lines) ==
    {l[2] : l \in {m \in lines : m[1] \in {"Created", "Copied", "Updated",
                                           "Backed up to"}}}

\* ClaudeTasksSetup.__init__: self.source
InitSource(arg, script_dir) ==
    IF arg = "none"
    THEN IF script_dir.sub THEN "script_dir" ELSE "none"
    ELSE arg

\* main() and ClaudeTasksSetup.__init__, then the head of run(): what exists
Start(arg, frc, ng, tr, ok) ==
    /\ BetweenRuns
    /\ runs < MaxRuns
    /\ runs' = runs + 1
    /\ arg_source' = arg
    /\ source' = InitSource(arg, shipped)
    /\ force' = frc
    /\ no_git' = ng
    /\ tree' = IF source' = "script_dir" THEN shipped
               ELSE IF source' = "none" THEN TreeMissing ELSE tr
    /\ clone_ok' = ok
    /\ claude_tasks_exists' = ("claude_tasks" \in dirs)
    /\ claude_md_exists' = (CLAUDE_MD \in DOMAIN files)
    /\ out' = {}
    /\ files0' = files
    /\ dirs0' = dirs
    /\ prev' = IF pc = "exit"
               THEN [ran |-> TRUE, arg_source |-> arg_source, force |-> force,
                     no_git |-> no_git, tree |-> tree, clone_ok |-> clone_ok,
                     exit_code |-> exit_code]
               ELSE NoRun
    /\ created' = created \cup Written(out)
    /\ pc' = "run"
    /\ UNCHANGED << dirs, files, shipped, today, temp_dir, raised, exit_code, edits >>

\* A run of the task installer from the command line.
StartRun ==
    \/ \E frc, ng \in BOOLEAN :
          Start("none", frc, ng, TreeMissing, TRUE) /\ UNCHANGED OtherVars
    \/ \E frc, ng \in BOOLEAN : \E tr \in LocalTrees :
          Start("local", frc, ng, tr, TRUE) /\ UNCHANGED OtherVars
    \/ \E frc, ng \in BOOLEAN : \E tr \in ClonedTrees :
          Start("url", frc, ng, tr, TRUE) /\ UNCHANGED OtherVars
    \/ \E frc, ng \in BOOLEAN :
          Start("url", frc, ng, TreeMissing, FALSE) /\ UNCHANGED OtherVars

St == [fs |-> files, out |-> out]

RunVars == << arg_source, source, force, no_git, tree, clone_ok,
              claude_tasks_exists, claude_md_exists, files0, dirs0, prev, created,
              runs, edits, shipped, today, OtherVars >>

\* InstallGuard that always holds: claude_tasks is installed in every run.
InstallGuardAlways(exists, frc) == TRUE

\* InstallGuard without "or self.force".
InstallGuardNoForce(exists, frc) == ~ exists

\* "if not claude_tasks_exists or self.force"
InstallGuard(exists, frc) == ~ exists \/ frc

\* run(): "Skipping claude_tasks (already exists)"
SkipClaudeTasks ==
    /\ pc = "run"
    /\ ~ InstallGuard(claude_tasks_exists, force)
    /\ out' = out \cup {<<"Skipping (already exists)", <<".", "claude_tasks">>>>}
    /\ pc' = "claude_md"
    /\ UNCHANGED << dirs, files, temp_dir, raised, exit_code >>
    /\ UNCHANGED RunVars

\* _create_directory_structure, and the choice of run() that follows it
CreateDirectoryStructure ==
    /\ pc = "run"
    /\ InstallGuard(claude_tasks_exists, force)
    /\ dirs' = dirs \cup Range(directories)
    /\ out' = out \cup {<<"Created directory", <<".", d>>>> :
                              d \in Range(directories) \ dirs}
    /\ pc' = IF source # "none" THEN "copy" ELSE "templates"
    /\ UNCHANGED << files, temp_dir, raised, exit_code >>
    /\ UNCHANGED RunVars

\* run(): self._create_from_templates()
CreateFromTemplates ==
    /\ pc = "templates"
    /\ LET st == create_from_templates(St, force, today)
       IN  files' = st.fs /\ out' = st.out
    /\ pc' = "claude_md"
    /\ UNCHANGED << dirs, temp_dir, raised, exit_code >>
    /\ UNCHANGED RunVars

\* _copy_from_source up to the call of _copy_files: the clone into a scratch
\* directory, or the test of the local path
ResolveSource ==
    /\ pc = "copy"
    /\ IF source = "url"
       THEN /\ temp_dir' = TRUE
            /\ raised' = ~ clone_ok
       ELSE /\ temp_dir' = temp_dir
            /\ raised' = ~ tree.exists
    /\ pc' = IF raised' THEN "finally" ELSE "copy_files"
    /\ UNCHANGED << dirs, files, exit_code, out >>
    /\ UNCHANGED RunVars

\* _copy_from_source: self._copy_files(source_path)
CopyFiles ==
    /\ pc = "copy_files"
    /\ LET st == copy_files(St, source, tree, force, today)
       IN  files' = st.fs /\ out' = st.out
    /\ pc' = "finally"
    /\ UNCHANGED << dirs, temp_dir, raised, exit_code >>
    /\ UNCHANGED RunVars

\* RemoveTree without the removal: the scratch directory is left as it is.
RemoveTreeKept(exists) == exists

\* "if temp_dir and Path(temp_dir).exists(): shutil.rmtree(temp_dir)": whether
\* the scratch directory exists afterwards
RemoveTree(exists) == FALSE

\* Finally with the exception swallowed: the run goes on to CLAUDE.md.
FinallySwallows ==
    /\ pc = "finally"
    /\ temp_dir' = RemoveTree(temp_dir)
    /\ pc' = "claude_md"
    /\ exit_code' = exit_code
    /\ raised' = FALSE
    /\ UNCHANGED << dirs, files, out >>
    /\ UNCHANGED RunVars

\* _copy_from_source: the finally block; an exception goes on to main(), which
\* exits with 1
Finally ==
    /\ pc = "finally"
    /\ temp_dir' = RemoveTree(temp_dir)
    /\ IF raised
       THEN pc' = "exit" /\ exit_code' = 1
       ELSE pc' = "claude_md" /\ exit_code' = exit_code
    /\ raised' = FALSE
    /\ UNCHANGED << dirs, files, out >>
    /\ UNCHANGED RunVars

\* "if not claude_md_exists or self.force"
ClaudeMdGuard(exists, frc) == ~ exists \/ frc

\* run(): "Skipping CLAUDE.md (already exists)"
SkipClaudeMd ==
    /\ pc = "claude_md"
    /\ ~ ClaudeMdGuard(claude_md_exists, force)
    /\ out' = out \cup {<<"Skipping (already exists)", CLAUDE_MD>>}
    /\ pc' = "gitignore"
    /\ UNCHANGED << dirs, files, temp_dir, raised, exit_code >>
    /\ UNCHANGED RunVars

\* run(): self._handle_claude_md()
HandleClaudeMd ==
    /\ pc = "claude_md"
    /\ ClaudeMdGuard(claude_md_exists, force)
    /\ LET st == handle_claude_md(St, source, tree, force)
       IN  files' = st.fs /\ out' = st.out
    /\ pc' = "gitignore"
    /\ UNCHANGED << dirs, temp_dir, raised, exit_code >>
    /\ UNCHANGED RunVars

\* UpdateGitignore without the test of no_git.
UpdateGitignoreAlways ==
    /\ pc = "gitignore"
    /\ LET st == update_gitignore(St)
       IN  files' = st.fs /\ out' = st.out
    /\ pc' = "exit"
    /\ exit_code' = 0
    /\ UNCHANGED << dirs, temp_dir, raised >>
    /\ UNCHANGED RunVars

\* run(): "if not self.no_git: self._update_gitignore()", and the return to
\* main(): exit code 0
UpdateGitignore ==
    /\ pc = "gitignore"
    /\ ~ no_git
    /\ LET st == update_gitignore(St)
       IN  files' = st.fs /\ out' = st.out
    /\ pc' = "exit"
    /\ exit_code' = 0
    /\ UNCHANGED << dirs, temp_dir, raised >>
    /\ UNCHANGED RunVars

SkipGitignore ==
    /\ pc = "gitignore"
    /\ no_git
    /\ pc' = "exit"
    /\ exit_code' = 0
    /\ UNCHANGED << dirs, files, out, temp_dir, raised >>
    /\ UNCHANGED RunVars

\* Between two runs no installer process is alive: nothing of the last run is
\* left but the target and what the run wrote.
Forget ==
    /\ pc' = "idle"
    /\ arg_source' = "none"
    /\ source' = "none"
    /\ force' = FALSE
    /\ no_git' = FALSE
    /\ tree' = TreeMissing
    /\ clone_ok' = TRUE
    /\ claude_tasks_exists' = FALSE
    /\ claude_md_exists' = FALSE
    /\ exit_code' = 0
    /\ out' = {}
    /\ files0' = files'
    /\ dirs0' = dirs
    /\ prev' = NoRun
    /\ created' = created \cup Written(out)
    /\ UNCHANGED << dirs, shipped, temp_dir, raised, runs, OtherVars >>

\* The user writes a file of the target between two runs.
UserEdit ==
    /\ BetweenRuns
    /\ runs > 0
    /\ edits < MaxEdits
    /\ \E path \in EditablePaths : \E content \in UserContents(path) :
          /\ path[1] \in dirs \cup {"."}
          /\ files' = (path :> content) @@ files
          /\ files' # files
    /\ edits' = edits + 1
    /\ UNCHANGED today
    /\ Forget

\* The user removes a file of the target between two runs.
UserDelete ==
    /\ BetweenRuns
    /\ runs > 0
    /\ edits < MaxEdits
    /\ \E path \in EditablePaths \cap DOMAIN files :
          files' = [q \in DOMAIN files \ {path} |-> files[q]]
    /\ edits' = edits + 1
    /\ UNCHANGED today
    /\ Forget

\* Midnight passes between two runs.
Tick ==
    /\ BetweenRuns
    /\ runs > 0
    /\ today < MaxDay
    /\ today' = today + 1
    /\ UNCHANGED << files, edits >>
    /\ Forget

Next ==
    \/ StartRun
    \/ SkipClaudeTasks
    \/ CreateDirectoryStructure
    \/ CreateFromTemplates
    \/ ResolveSource
    \/ CopyFiles
    \/ Finally
    \/ SkipClaudeMd
    \/ HandleClaudeMd
    \/ UpdateGitignore
    \/ SkipGitignore
    \/ UserEdit
    \/ UserDelete
    \/ Tick

Spec == Init /\ [][Next]_vars

TypeOK ==
    /\ dirs \subseteq Range(directories)
    /\ pc \in {"idle", "run", "templates", "copy", "copy_files", "finally",
               "claude_md", "gitignore", "exit", "blocked"}
    /\ source \in {"none", "script_dir", "local", "url"}
    /\ exit_code \in {0, 1}
    /\ runs \in 0..MaxRuns
    /\ edits \in 0..MaxEdits
    /\ today \in 1..MaxDay

---------------------------------------------------------------------------
\* A run of the dashboard installer, step by step.

\* The variables of the task installer but the files of the target.
TaskRunVars ==
    << dirs, shipped, today, pc, arg_source, source, force, no_git, tree,
       clone_ok, claude_tasks_exists, claude_md_exists, temp_dir, raised,
       exit_code, out, files0, dirs0, prev, created, runs, edits >>

\* What a step of a dashboard run leaves alone.
DashboardRunVars ==
    << d_force, d_no_git, d_offline, d_version, d_port, dashboard_exists,
       d_files0, d_dir0, d_runs, TaskRunVars, OrchestratorVars >>

DashboardBetweenRuns == d_pc \in {"idle", "exit"}

\* What an external command can end with: an exit code, or the exception that
\* subprocess.run raises.
SshResults == {"0", "1", "255", "TimeoutExpired", "FileNotFoundError"}
NpmResults == {"0", "1", "TimeoutExpired", "FileNotFoundError"}
RepoTrees == {RepoFull, RepoNoPackage, RepoBadPackage}

Op(name, result) == [op |-> name, result |-> result]

\* main() and TestDashboardSetup.__init__ of setup_test_dashboard.py, then the
\* head of run(): what exists
DashboardStart(frc, ng, off, ver, port) ==
    /\ DashboardBetweenRuns
    /\ d_runs < MaxRuns
    /\ d_runs' = d_runs + 1
    /\ d_force' = frc
    /\ d_no_git' = ng
    /\ d_offline' = off
    /\ d_version' = ver
    /\ d_port' = port
    /\ dashboard_exists' = dashboard_dir.exists
    /\ clone_url' = "none"
    /\ d_ops' = << >>
    /\ d_out' = {}
    /\ d_files0' = files
    /\ d_dir0' = dashboard_dir
    /\ d_pc' = "run"
    /\ UNCHANGED << dashboard_dir, d_temp_dir, d_repo, d_raised, d_exit_code, files,
                    TaskRunVars >>

\* "if not dashboard_exists or self.force"
DashboardGuard(exists, frc) == ~ exists \/ frc

\* run(): "Skipping test-dashboard-module (already exists)"
SkipDashboard ==
    /\ d_pc = "run"
    /\ ~ DashboardGuard(dashboard_exists, d_force)
    /\ d_out' = d_out \cup {<<"Skipping (already exists)", DASHBOARD_MODULE>>}
    /\ d_pc' = "gitignore"
    /\ UNCHANGED << dashboard_dir, clone_url, d_temp_dir, d_repo, d_raised,
                    d_exit_code, d_ops, files >>
    /\ UNCHANGED DashboardRunVars

\* RemoveExisting without the removal: the clone is copied over what is there.
RemoveExistingKept(dd, frc) == dd

\* _install_dashboard up to the call of _clone_dashboard: an existing
\* test-dashboard-module is removed under --force
RemoveExisting(dd, frc) == IF dd.exists /\ frc THEN NoDashboard ELSE dd

InstallDashboard ==
    /\ d_pc = "run"
    /\ DashboardGuard(dashboard_exists, d_force)
    /\ dashboard_dir' = RemoveExisting(dashboard_dir, d_force)
    /\ d_out' = d_out \cup (IF dashboard_dir.exists /\ d_force
                            THEN {<<"Removing existing", DASHBOARD_MODULE>>}
                            ELSE {})
    /\ d_pc' = "ssh"
    /\ UNCHANGED << clone_url, d_temp_dir, d_repo, d_raised, d_exit_code, d_ops,
                    files >>
    /\ UNCHANGED DashboardRunVars

\* UseSsh that takes exit code 0 alone for an SSH remote that can be used.
UseSshZeroOnly(result) == result = "0"

\* "if result.returncode not in [0, 1]", and the except clause of the probe
UseSsh(result) == result \in {"0", "1"}

\* _clone_dashboard: the SSH probe (timeout=10) and the choice of clone_url
SshProbe ==
    /\ d_pc = "ssh"
    /\ \E result \in SshResults :
          /\ clone_url' = IF UseSsh(result) THEN "ssh" ELSE "https"
          /\ d_ops' = Append(d_ops, Op("ssh -T", result))
    /\ d_out' = d_out \cup (IF clone_url' = "https"
                            THEN {<<"using HTTPS", DASHBOARD_MODULE>>} ELSE {})
    /\ d_pc' = "clone"
    /\ UNCHANGED << dashboard_dir, d_temp_dir, d_repo, d_raised, d_exit_code, files >>
    /\ UNCHANGED DashboardRunVars

\* GitClone with a second attempt: a clone from the SSH remote that fails is
\* followed by a clone from the HTTPS remote.
GitCloneRetriesHttps ==
    /\ d_pc = "clone"
    /\ d_temp_dir' = TRUE
    /\ \/ \E repo \in RepoTrees :
             /\ d_repo' = repo
             /\ d_ops' = Append(d_ops, Op("git clone", "0"))
             /\ d_raised' = FALSE
             /\ d_out' = d_out
             /\ clone_url' = clone_url
             /\ d_pc' = IF d_version THEN "checkout" ELSE "copy"
       \/ \E result \in {"128", "TimeoutExpired"} :
             /\ d_repo' = NoItems
             /\ d_ops' = Append(d_ops, Op("git clone", result))
             /\ d_raised' = (clone_url # "ssh")
             /\ d_out' = d_out \cup
                    {<<IF result = "TimeoutExpired" THEN "Clone timed out"
                       ELSE "Git clone failed", DASHBOARD_MODULE>>}
             /\ clone_url' = "https"
             /\ d_pc' = IF clone_url = "ssh" THEN "clone" ELSE "finally"
    /\ UNCHANGED << dashboard_dir, d_exit_code, files >>
    /\ UNCHANGED DashboardRunVars

\* _clone_dashboard: tempfile.mkdtemp() and "git clone" (timeout=60); a
\* non-zero exit code and a timeout raise
GitClone ==
    /\ d_pc = "clone"
    /\ d_temp_dir' = TRUE
    /\ \/ \E repo \in RepoTrees :
             /\ d_repo' = repo
             /\ d_ops' = Append(d_ops, Op("git clone", "0"))
             /\ d_raised' = FALSE
             /\ d_out' = d_out
             /\ d_pc' = IF d_version THEN "checkout" ELSE "copy"
       \/ \E result \in {"128", "TimeoutExpired"} :
             /\ d_repo' = NoItems
             /\ d_ops' = Append(d_ops, Op("git clone", result))
             /\ d_raised' = TRUE
             /\ d_out' = d_out \cup
                    {<<IF result = "TimeoutExpired" THEN "Clone timed out"
                       ELSE "Git clone failed", DASHBOARD_MODULE>>}
             /\ d_pc' = "finally"
    /\ UNCHANGED << dashboard_dir, clone_url, d_exit_code, files >>
    /\ UNCHANGED DashboardRunVars

\* _clone_dashboard: "git checkout" of the version, which has no timeout; a
\* non-zero exit code is a warning
GitCheckout ==
    /\ d_pc = "checkout"
    /\ \E result \in {"0", "1"} :
          /\ d_ops' = Append(d_ops, Op("git checkout", result))
          /\ d_out' = d_out \cup (IF result = "0" THEN {}
                                  ELSE {<<"Could not checkout version",
                                          DASHBOARD_MODULE>>})
    /\ d_pc' = "copy"
    /\ UNCHANGED << dashboard_dir, clone_url, d_temp_dir, d_repo, d_raised,
                    d_exit_code, files >>
    /\ UNCHANGED DashboardRunVars

\* _clone_dashboard: self._copy_dashboard_files(Path(temp_dir))
CopyDashboardFiles ==
    /\ d_pc = "copy"
    /\ dashboard_dir' = copy_dashboard_files(dashboard_dir, d_repo)
    /\ d_out' = d_out \cup {<<"Successfully cloned", DASHBOARD_MODULE>>}
    /\ d_pc' = "finally"
    /\ UNCHANGED << clone_url, d_temp_dir, d_repo, d_raised, d_exit_code, d_ops,
                    files >>
    /\ UNCHANGED DashboardRunVars

\* DashboardFinally with the exception swallowed: the run goes on to the
\* configuration.
DashboardFinallySwallows ==
    /\ d_pc = "finally"
    /\ d_temp_dir' = RemoveTree(d_temp_dir)
    /\ d_repo' = NoItems
    /\ d_pc' = "config"
    /\ d_exit_code' = d_exit_code
    /\ d_raised' = FALSE
    /\ UNCHANGED << dashboard_dir, clone_url, d_ops, d_out, files >>
    /\ UNCHANGED DashboardRunVars

\* _clone_dashboard: the finally block; an exception goes on to main(), which
\* exits with 1
DashboardFinally ==
    /\ d_pc = "finally"
    /\ d_temp_dir' = RemoveTree(d_temp_dir)
    /\ d_repo' = NoItems
    /\ IF d_raised
       THEN d_pc' = "exit" /\ d_exit_code' = 1
       ELSE d_pc' = "config" /\ d_exit_code' = d_exit_code
    /\ d_raised' = FALSE
    /\ UNCHANGED << dashboard_dir, clone_url, d_ops, d_out, files >>
    /\ UNCHANGED DashboardRunVars

\* _install_dashboard: self._update_dashboard_config()
UpdateDashboardConfig ==
    /\ d_pc = "config"
    /\ dashboard_dir' = update_dashboard_config(dashboard_dir, d_port)
    /\ d_out' = d_out \cup (IF dashboard_dir' # dashboard_dir
                            THEN {<<"Updated", DASHBOARD_MODULE>>} ELSE {})
    /\ d_pc' = "npm"
    /\ UNCHANGED << clone_url, d_temp_dir, d_repo, d_raised, d_exit_code, d_ops,
                    files >>
    /\ UNCHANGED DashboardRunVars

\* _install_dashboard: self._install_node_dependencies(); "npm install"
\* (timeout=120) is run when there is a package.json, and whatever it ends
\* with is a warning
InstallNodeDependencies ==
    /\ d_pc = "npm"
    /\ IF "package.json" \notin DOMAIN dashboard_dir.items
       THEN /\ d_out' = d_out \cup {<<"No package.json found", DASHBOARD_MODULE>>}
            /\ UNCHANGED << dashboard_dir, d_ops >>
       ELSE \E result \in NpmResults :
               /\ d_ops' = Append(d_ops, Op("npm install", result))
               /\ dashboard_dir' = IF result = "0" THEN NpmInstalled(dashboard_dir)
                                   ELSE dashboard_dir
               /\ d_out' = d_out \cup
                      {<<IF result = "0" THEN "dependencies installed"
                         ELSE "npm warning", DASHBOARD_MODULE>>}
    /\ d_pc' = "gitignore"
    /\ UNCHANGED << clone_url, d_temp_dir, d_repo, d_raised, d_exit_code, files >>
    /\ UNCHANGED DashboardRunVars

\* run(): "if not self.no_git: self._update_gitignore()", and the return to
\* main(): exit code 0
DashboardUpdateGitignore ==
    /\ d_pc = "gitignore"
    /\ ~ d_no_git
    /\ LET st == dashboard_update_gitignore([fs |-> files, out |-> d_out])
       IN  files' = st.fs /\ d_out' = st.out
    /\ d_pc' = "exit"
    /\ d_exit_code' = 0
    /\ UNCHANGED << dashboard_dir, clone_url, d_temp_dir, d_repo, d_raised, d_ops >>
    /\ UNCHANGED DashboardRunVars

DashboardSkipGitignore ==
    /\ d_pc = "gitignore"
    /\ d_no_git
    /\ d_pc' = "exit"
    /\ d_exit_code' = 0
    /\ UNCHANGED << dashboard_dir, clone_url, d_temp_dir, d_repo, d_raised, d_ops,
                    d_out, files >>
    /\ UNCHANGED DashboardRunVars

---------------------------------------------------------------------------
\* Steps that end in an error of the operating system (a write that raises
\* OSError), and external commands that never return.

\* _create_from_templates raises after the loop over EMBEDDED_TEMPLATES; the
\* exception goes on to main(), which exits with 1
CreateFromTemplatesFails ==
    /\ pc = "templates"
    /\ LET st == WriteEmbedded(St, 1, force, today)
       IN  files' = st.fs /\ out' = st.out
    /\ pc' = "exit"
    /\ exit_code' = 1
    /\ UNCHANGED << dirs, temp_dir, raised >>
    /\ UNCHANGED RunVars

\* _copy_files raises after its first loop
CopyFilesFails ==
    /\ pc = "copy_files"
    /\ LET st == IF SourcePathExists(source, tree)
                 THEN CopyListed(St, 1, tree, force)
                 ELSE WriteEmbedded(St, 1, force, today)
       IN  files' = st.fs /\ out' = st.out
    /\ raised' = TRUE
    /\ pc' = "finally"
    /\ UNCHANGED << dirs, temp_dir, exit_code >>
    /\ UNCHANGED RunVars

\* _handle_claude_md raises at its first write
HandleClaudeMdFails ==
    /\ pc = "claude_md"
    /\ ClaudeMdGuard(claude_md_exists, force)
    /\ pc' = "exit"
    /\ exit_code' = 1
    /\ UNCHANGED << dirs, files, out, temp_dir, raised >>
    /\ UNCHANGED RunVars

\* _update_gitignore raises at its write
UpdateGitignoreFails ==
    /\ pc = "gitignore"
    /\ ~ no_git
    /\ Exists(St, GITIGNORE) => ~ GitignoreConfigured(files[GITIGNORE])
    /\ pc' = "exit"
    /\ exit_code' = 1
    /\ UNCHANGED << dirs, files, out, temp_dir, raised >>
    /\ UNCHANGED RunVars

\* _copy_from_source: tempfile.mkdtemp(), and a "git clone", run without a
\* timeout, that never returns
CloneBlocks ==
    /\ pc = "copy"
    /\ source = "url"
    /\ temp_dir' = TRUE
    /\ pc' = "blocked"
    /\ UNCHANGED << dirs, files, raised, exit_code, out >>
    /\ UNCHANGED RunVars

\* _copy_dashboard_files raises after it has made the directory
CopyDashboardFilesFails ==
    /\ d_pc = "copy"
    /\ dashboard_dir' = [dashboard_dir EXCEPT !.exists = TRUE]
    /\ d_raised' = TRUE
    /\ d_out' = d_out \cup {<<"Error cloning repository", DASHBOARD_MODULE>>}
    /\ d_pc' = "finally"
    /\ UNCHANGED << clone_url, d_temp_dir, d_repo, d_exit_code, d_ops, files >>
    /\ UNCHANGED DashboardRunVars

\* _clone_dashboard: a "git checkout", run without a timeout, that never returns
GitCheckoutBlocks ==
    /\ d_pc = "checkout"
    /\ d_ops' = Append(d_ops, Op("git checkout", "never returns"))
    /\ d_pc' = "blocked"
    /\ UNCHANGED << dashboard_dir, clone_url, d_temp_dir, d_repo, d_raised,
                    d_exit_code, d_out, files >>
    /\ UNCHANGED DashboardRunVars

---------------------------------------------------------------------------
\* A run of the orchestrator (setup_all.py, class AIInitSetup): it runs the
\* task installer and the dashboard installer as processes of their own.

OrchestratorBetweenRuns == o_pc \in {"idle", "exit"}

\* No installer is running.
AllIdle == BetweenRuns /\ DashboardBetweenRuns /\ OrchestratorBetweenRuns

\* The installer processes started so far.
Started == runs + d_runs + o_runs

\* install_claude and install_dashboard of run()
install_claude == ~ dashboard_only
install_dashboard == ~ claude_only

\* main() and AIInitSetup.__init__ of setup_all.py: both --claude-only and
\* --dashboard-only end the process with exit code 1
StartAll ==
    /\ AllIdle
    /\ Started < MaxStarted
    /\ \E frc, ng, co, do, ci, di \in BOOLEAN : \E port \in {DEFAULT_PORT, CUSTOM_PORT} :
          /\ o_force' = frc
          /\ o_no_git' = ng
          /\ claude_only' = co
          /\ dashboard_only' = do
          /\ dashboard_port' = port
          /\ claude_installer' = ci
          /\ dashboard_installer' = di
          /\ IF co /\ do
             THEN o_pc' = "exit" /\ o_exit_code' = 1
             ELSE o_pc' = "validate" /\ o_exit_code' = o_exit_code
    /\ success' = TRUE
    /\ o_started' = << >>
    /\ o_results' = << >>
    /\ o_files0' = files
    /\ o_dirs0' = dirs
    /\ o_dir0' = dashboard_dir
    /\ o_runs' = o_runs + 1
    /\ UNCHANGED << files, TaskRunVars, DashboardVars >>

\* What a step of the orchestrator leaves alone.
OrchestratorRunVars ==
    << o_force, o_no_git, claude_only, dashboard_only, dashboard_port,
       claude_installer, dashboard_installer, o_files0, o_dirs0, o_dir0, o_runs >>

\* ValidateInstallersMissing that looks for the selected installers only.
ValidateInstallersMissingSelected ==
    \/ install_claude /\ ~ claude_installer
    \/ install_dashboard /\ ~ dashboard_installer

\* ValidateInstallersMissing without the test of the dashboard installer.
ValidateInstallersMissingClaude == ~ claude_installer

\* _validate_installers(): both scripts are looked for, whatever was selected
ValidateInstallersMissing == ~ claude_installer \/ ~ dashboard_installer

\* run(): "if not self._validate_installers(): return False", and main():
\* sys.exit(0 if success else 1)
ValidateInstallers ==
    /\ o_pc = "validate"
    /\ IF ValidateInstallersMissing
       THEN o_pc' = "exit" /\ o_exit_code' = 1
       ELSE /\ o_pc' = IF install_claude THEN "claude" ELSE "dashboard"
            /\ o_exit_code' = o_exit_code
    /\ UNCHANGED << success, o_started, o_results >>
    /\ UNCHANGED << files, TaskRunVars, DashboardVars, OrchestratorRunVars >>

\* AfterClaude with a short circuit: the dashboard installer is run only while
\* success holds.
AfterClaudeShortCircuit ==
    IF install_dashboard /\ success' THEN "dashboard" ELSE "summary"

\* where run() goes after the task installer
AfterClaude == IF install_dashboard THEN "dashboard" ELSE "summary"

\* _run_claude_installer: subprocess.run(cmd) starts the task installer with
\* --target, and --force and --no-git as given
RunClaudeInstaller ==
    /\ o_pc = "claude"
    /\ Start("none", o_force, o_no_git, TreeMissing, TRUE)
    /\ o_started' = Append(o_started, "claude")
    /\ o_pc' = "wait_claude"
    /\ UNCHANGED << success, o_exit_code, o_results >>
    /\ UNCHANGED << DashboardVars, OrchestratorRunVars >>

\* _run_claude_installer: subprocess.run raises, "return False"
ClaudeInstallerNotLaunched ==
    /\ o_pc = "claude"
    /\ o_started' = Append(o_started, "claude")
    /\ o_results' = Append(o_results, FALSE)
    /\ success' = FALSE
    /\ o_pc' = AfterClaude
    /\ UNCHANGED o_exit_code
    /\ UNCHANGED << files, TaskRunVars, DashboardVars, OrchestratorRunVars >>

\* _run_claude_installer: "return result.returncode == 0", and
\* "success &= ..." of run()
ClaudeInstallerExited ==
    /\ o_pc = "wait_claude"
    /\ pc = "exit"
    /\ o_results' = Append(o_results, exit_code = 0)
    /\ success' = (success /\ exit_code = 0)
    /\ o_pc' = AfterClaude
    /\ UNCHANGED << o_exit_code, o_started >>
    /\ UNCHANGED << files, TaskRunVars, DashboardVars, OrchestratorRunVars >>

\* _run_dashboard_installer: subprocess.run(cmd) starts the dashboard
\* installer with --target and --port, and --force and --no-git as given
RunDashboardInstaller ==
    /\ o_pc = "dashboard"
    /\ DashboardStart(o_force, o_no_git, FALSE, FALSE, dashboard_port)
    /\ o_started' = Append(o_started, "dashboard")
    /\ o_pc' = "wait_dashboard"
    /\ UNCHANGED << success, o_exit_code, o_results >>
    /\ UNCHANGED OrchestratorRunVars

\* _run_dashboard_installer: subprocess.run raises, "return False"
DashboardInstallerNotLaunched ==
    /\ o_pc = "dashboard"
    /\ o_started' = Append(o_started, "dashboard")
    /\ o_results' = Append(o_results, FALSE)
    /\ success' = FALSE
    /\ o_pc' = "summary"
    /\ UNCHANGED o_exit_code
    /\ UNCHANGED << files, TaskRunVars, DashboardVars, OrchestratorRunVars >>

\* _run_dashboard_installer: "return result.returncode == 0", and
\* "success &= ..." of run()
DashboardInstallerExited ==
    /\ o_pc = "wait_dashboard"
    /\ d_pc = "exit"
    /\ o_results' = Append(o_results, d_exit_code = 0)
    /\ success' = (success /\ d_exit_code = 0)
    /\ o_pc' = "summary"
    /\ UNCHANGED << o_exit_code, o_started >>
    /\ UNCHANGED << files, TaskRunVars, DashboardVars, OrchestratorRunVars >>

\* ExitCode that takes no notice of success.
ExitCodeZero(ok) == 0

\* run(): the final summary, and main(): sys.exit(0 if success else 1)
ExitCode(ok) == IF ok THEN 0 ELSE 1

Summary ==
    /\ o_pc = "summary"
    /\ o_exit_code' = ExitCode(success)
    /\ o_pc' = "exit"
    /\ UNCHANGED << success, o_started, o_results >>
    /\ UNCHANGED << files, TaskRunVars, DashboardVars, OrchestratorRunVars >>

---------------------------------------------------------------------------
\* The three entry points on one target: the user runs the task installer, the
\* dashboard installer or the orchestrator, one after the other, and a step
\* of a run can end in an error.

\* A test-dashboard-module that an earlier installation left, with a file of
\* the user's in it.
InstalledDashboard ==
    LET dd == update_dashboard_config(copy_dashboard_files(NoDashboard, RepoFull),
                                      DEFAULT_PORT)
    IN  [dd EXCEPT !.items = ("test-registry.json" :> File(<< "{}" >>)) @@ @]

\* The targets the first command can meet: the files and directories that the
\* task installer looks at, and test-dashboard-module.
AllTargets ==
    { [dirs |-> {}, files |-> EmptyFiles, dashboard |-> NoDashboard],
      [dirs |-> {},
       files |-> (CLAUDE_MD :> << TITLE, NL, "Existing content" >>)
                 @@ (CUCUMBER_JS :> UserText)
                 @@ (GITIGNORE :> << "node_modules/", NL >>),
       dashboard |-> NoDashboard],
      [dirs |-> {"claude_tasks"},
       files |-> (GITIGNORE :> << "node_modules/" >>),
       dashboard |-> InstalledDashboard],
      [dirs |-> {},
       files |-> (GITIGNORE :> << "node_modules/", NL >>
                                 \o JoinLines(dashboard_entries_to_add) \o << NL >>),
       dashboard |-> InstalledDashboard] }

InitAll ==
    /\ \E t \in AllTargets :
          dirs = t.dirs /\ files = t.files /\ dashboard_dir = t.dashboard
    /\ shipped \in ShippedTrees
    /\ InitRun
    /\ InitDashboard
    /\ InitOrchestrator

\* A run of the task installer from the command line, when nothing else runs.
DirectRun ==
    /\ AllIdle
    /\ Started < MaxStarted
    /\ StartRun

\* A run of the dashboard installer from the command line.
StartDashboard ==
    /\ AllIdle
    /\ Started < MaxStarted
    /\ \E frc, ng, off, ver \in BOOLEAN : \E port \in {DEFAULT_PORT, CUSTOM_PORT} :
          DashboardStart(frc, ng, off, ver, port)
    /\ UNCHANGED OrchestratorVars

NextAll ==
    \/ DirectRun
    \/ SkipClaudeTasks
    \/ CreateDirectoryStructure
    \/ CreateFromTemplates
    \/ CreateFromTemplatesFails
    \/ ResolveSource
    \/ CloneBlocks
    \/ CopyFiles
    \/ CopyFilesFails
    \/ Finally
    \/ SkipClaudeMd
    \/ HandleClaudeMd
    \/ HandleClaudeMdFails
    \/ UpdateGitignore
    \/ UpdateGitignoreFails
    \/ SkipGitignore
    \/ StartDashboard
    \/ SkipDashboard
    \/ InstallDashboard
    \/ SshProbe
    \/ GitClone
    \/ GitCheckout
    \/ GitCheckoutBlocks
    \/ CopyDashboardFiles
    \/ CopyDashboardFilesFails
    \/ DashboardFinally
    \/ UpdateDashboardConfig
    \/ InstallNodeDependencies
    \/ DashboardUpdateGitignore
    \/ DashboardSkipGitignore
    \/ StartAll
    \/ ValidateInstallers
    \/ RunClaudeInstaller
    \/ ClaudeInstallerNotLaunched
    \/ ClaudeInstallerExited
    \/ RunDashboardInstaller
    \/ DashboardInstallerNotLaunched
    \/ DashboardInstallerExited
    \/ Summary

SpecAll == InitAll /\ [][NextAll]_vars

---------------------------------------------------------------------------
\* The dashboard installer alone, run again and again on one target.

\* The targets its first run can meet: .gitignore absent, of the user's
\* without a last newline, with an entry of the user's that names
\* test-dashboard-module, and with the entries of an earlier run.
DashboardTargets ==
    { [files |-> EmptyFiles, dashboard |-> NoDashboard],
      [files |-> (GITIGNORE :> << "node_modules/" >>), dashboard |-> NoDashboard],
      [files |-> (GITIGNORE :> << "node_modules/" >>),
       dashboard |-> InstalledDashboard],
      [files |-> (GITIGNORE :> << DASHBOARD_MODULE, "/", NL >>),
       dashboard |-> InstalledDashboard],
      [files |-> (GITIGNORE :> << "node_modules/", NL >>
                                 \o JoinLines(dashboard_entries_to_add) \o << NL >>),
       dashboard |-> InstalledDashboard] }

InitDashboardRuns ==
    /\ \E t \in DashboardTargets : files = t.files /\ dashboard_dir = t.dashboard
    /\ dirs = {}
    /\ shipped = TreeBare
    /\ InitRun
    /\ InitDashboard
    /\ InitOrchestrator

\* A run of the dashboard installer from the command line, the first or a
\* later one.
RerunDashboard ==
    /\ \E frc, ng, off, ver \in BOOLEAN : \E port \in {DEFAULT_PORT, CUSTOM_PORT} :
          DashboardStart(frc, ng, off, ver, port)
    /\ UNCHANGED OrchestratorVars

NextDashboard ==
    \/ RerunDashboard
    \/ SkipDashboard
    \/ InstallDashboard
    \/ SshProbe
    \/ GitClone
    \/ GitCheckout
    \/ GitCheckoutBlocks
    \/ CopyDashboardFiles
    \/ CopyDashboardFilesFails
    \/ DashboardFinally
    \/ UpdateDashboardConfig
    \/ InstallNodeDependencies
    \/ DashboardUpdateGitignore
    \/ DashboardSkipGitignore

SpecDashboard == InitDashboardRuns /\ [][NextDashboard]_vars

---------------------------------------------------------------------------
\* What the claims speak of.

\* A run has ended with exit code 0.
Succeeded == pc = "exit" /\ exit_code = 0

\* The run follows a run of the same arguments, on the same source, that ended
\* with exit code 0, and nothing happened between the two.
RepeatedRun ==
    /\ prev.ran
    /\ prev.exit_code = 0
    /\ prev.arg_source = arg_source
    /\ prev.force = force
    /\ prev.no_git = no_git
    /\ prev.tree = tree
    /\ prev.clone_ok = clone_ok

GITIGNORE_HEADER == "# Claude task management"

\* The content holds both texts that mark a CLAUDE.md as referring to the task
\* system.
MarkerText(content) ==
    /\ \E i \in 1..Len(content) : content[i] = "claude_tasks"
    /\ \E i \in 1..Len(content) : content[i] = "BDD+TDD"

\* The content holds neither of them.
NoMarkerText(content) ==
    \A i \in 1..Len(content) : content[i] \notin {"claude_tasks", "BDD+TDD"}

IsPrefix(a, b) == Len(a) <= Len(b) /\ SubSeq(b, 1, Len(a)) = a
IsSuffix(a, b) == Len(a) <= Len(b) /\ SubSeq(b, Len(b) - Len(a) + 1, Len(b)) = a

\* C1: a run that repeats a successful run with the same arguments and without
\* --force changes no file and no directory of the target, .gitignore included,
\* and reports claude_tasks and CLAUDE.md as already existing and nothing as
\* written.
C1_Idempotence ==
    (pc = "exit" /\ RepeatedRun /\ ~ force) =>
        /\ files = files0
        /\ dirs = dirs0
        /\ Written(out) = {}
        /\ <<"Skipping (already exists)", <<".", "claude_tasks">>>> \in out
        /\ <<"Skipping (already exists)", CLAUDE_MD>> \in out

\* The same with --no-git, where .gitignore is not looked at.
C1_IdempotenceNoGit ==
    (pc = "exit" /\ RepeatedRun /\ ~ force /\ no_git) =>
        /\ files = files0
        /\ dirs = dirs0
        /\ Written(out) = {}
        /\ <<"Skipping (already exists)", <<".", "claude_tasks">>>> \in out
        /\ <<"Skipping (already exists)", CLAUDE_MD>> \in out

\* C2: a run without --force that ends with exit code 0 on a target whose
\* CLAUDE.md has no marker leaves a CLAUDE.md.backup with the original content,
\* and a CLAUDE.md that starts with the reference block and ends with the
\* original body.
C2_MergeWithoutForce ==
    (/\ Succeeded
     /\ ~ force
     /\ CLAUDE_MD \in DOMAIN files0
     /\ NoMarkerText(files0[CLAUDE_MD])) =>
        /\ CLAUDE_MD_BACKUP \in DOMAIN files
        /\ files[CLAUDE_MD_BACKUP] = files0[CLAUDE_MD]
        /\ IsPrefix(reference_section, files[CLAUDE_MD])

\* C3: when a run with --force has changed the content of an existing CLAUDE.md,
\* CLAUDE.md.backup exists and holds the content CLAUDE.md had before the run.
C3_ForceBackup ==
    (/\ pc = "exit"
     /\ force
     /\ CLAUDE_MD \in DOMAIN files0
     /\ CLAUDE_MD \in DOMAIN files
     /\ files[CLAUDE_MD] # files0[CLAUDE_MD]) =>
        /\ CLAUDE_MD_BACKUP \in DOMAIN files
        /\ files[CLAUDE_MD_BACKUP] = files0[CLAUDE_MD]

\* A step of the installer changes or removes the file at path.
Changes(path) ==
    /\ path \in DOMAIN files
    /\ path \notin DOMAIN files' \/ files'[path] # files[path]

InstallerStep == ~ BetweenRuns

\* C4 as stated: a step of the installer changes a file that exists, .gitignore
\* included, only when --force is set.
C4_WriteGuard ==
    [][InstallerStep => \A path \in DOMAIN files : Changes(path) => force]_vars

\* C4 as amended: a step of the installer changes a file that exists, other than
\* .gitignore, only when --force is set; .gitignore is never removed or
\* shortened by a step: its old content is the head of the new one.
C4_WriteGuardButGitignore ==
    [][InstallerStep =>
          /\ \A path \in DOMAIN files \ {GITIGNORE} : Changes(path) => force
          /\ GITIGNORE \in DOMAIN files =>
                /\ GITIGNORE \in DOMAIN files'
                /\ IsPrefix(files[GITIGNORE], files'[GITIGNORE])]_vars

\* A run without --force has ended that met a cucumber.js of the user, wrote the
\* task documents beside it, left it as it was and extended a .gitignore.
C4_Witness ==
    /\ Succeeded
    /\ ~ force
    /\ CUCUMBER_JS \in DOMAIN files0
    /\ files[CUCUMBER_JS] = UserText
    /\ ACTIVE_TASKS \in Written(out)
    /\ GITIGNORE \in DOMAIN files0
    /\ files[GITIGNORE] # files0[GITIGNORE]

\* C5: a run on a .gitignore that holds the installer's comment header leaves
\* .gitignore as it is, and the header never occurs twice in .gitignore.
C5_GitignoreConvergence ==
    /\ (/\ pc = "exit"
        /\ GITIGNORE \in DOMAIN files0
        /\ CountToken(files0[GITIGNORE], GITIGNORE_HEADER) > 0) =>
            files[GITIGNORE] = files0[GITIGNORE]
    /\ GITIGNORE \in DOMAIN files =>
            CountToken(files[GITIGNORE], GITIGNORE_HEADER) <= 1

\* C6: while a run is under way and when it has ended, a CLAUDE.md that held the
\* marker text when the run started is as it was then, whatever the arguments.
C6_MarkerLeavesClaudeMd ==
    (/\ pc # "idle"
     /\ CLAUDE_MD \in DOMAIN files0
     /\ MarkerText(files0[CLAUDE_MD])) =>
        /\ CLAUDE_MD \in DOMAIN files
        /\ files[CLAUDE_MD] = files0[CLAUDE_MD]

\* A run with --force has gone through _update_existing_claude_md on a CLAUDE.md
\* with the marker text, and has ended.
C6_Witness ==
    /\ pc = "exit"
    /\ force
    /\ CLAUDE_MD \in DOMAIN files0
    /\ MarkerText(files0[CLAUDE_MD])
    /\ <<"already references", CLAUDE_MD>> \in out
    /\ files[CLAUDE_MD] = files0[CLAUDE_MD]

\* C7: when the merge has prepended the reference block to a CLAUDE.md whose
\* first line was the title line, the title line occurs once in the result.
C7_HeaderOnce ==
    (/\ pc = "exit"
     /\ <<"Updated", CLAUDE_MD>> \in out
     /\ Lines(files0[CLAUDE_MD])[1] = <<TITLE>>) =>
        CountLines(files[CLAUDE_MD], <<TITLE>>) = 1

\* The same for the contents in which a newline ends the first line.
C7_HeaderOnceWithNewline ==
    (/\ pc = "exit"
     /\ <<"Updated", CLAUDE_MD>> \in out
     /\ Lines(files0[CLAUDE_MD])[1] = <<TITLE>>
     /\ Contains(files0[CLAUDE_MD], NL)) =>
        CountLines(files[CLAUDE_MD], <<TITLE>>) = 1

\* The files of the built-in templates and their texts on a day.
BuiltIn(day) ==
    (<<"claude_tasks", "QUICK_REFERENCE.md">> :>
         EMBEDDED_TEMPLATES("QUICK_REFERENCE.md"))
    @@ (<<"claude_tasks", "PRINCIPLES_QUICK_CARD.md">> :>
         EMBEDDED_TEMPLATES("PRINCIPLES_QUICK_CARD.md"))
    @@ (<<"claude_tasks", "BDD_PROCESS.md">> :> EMBEDDED_TEMPLATES("BDD_PROCESS.md"))
    @@ (ACTIVE_TASKS :>
         << "# Active Tasks", NL, "*Last Updated: ", DateText[day], "*", NL,
            "### Task 1: ", "[Example Task]", NL >>)
    @@ (TODO_LIST :> << "# Todo List", NL, "*Last Updated: ", DateText[day], "*", NL >>)
    @@ (CMD_TODO :> todo_content)
    @@ (CMD_REFRESH :> refresh_content)
    @@ (EXAMPLE_FEATURE :> example_feature_content)
    @@ (COMMON_STEPS :> step_definitions_content)
    @@ (CUCUMBER_JS :> cucumber_config_content)
    @@ (BEHAVIORS_README :> behaviors_readme_content)

\* The files a source tree supplies, as paths of the target, and the name each
\* has in the source.
SuppliedBy(tr) ==
    {<<"claude_tasks", n>> : n \in tr.docs \cap Range(files_to_copy)}
    \cup (IF tr.active THEN {ACTIVE_TASKS} ELSE {})
    \cup (IF tr.todo_list THEN {TODO_LIST} ELSE {})
    \cup (IF tr.todo_cmd THEN {TODO_CMD} ELSE {})
    \cup (IF tr.readme THEN {BEHAVIORS_README} ELSE {})
    \cup {<<".claude/commands", n>> : n \in {m \in tr.cmds : Suffix(m) = ".md"}}
    \cup {<<"claude_tasks/behaviors/features", n>> :
             n \in {m \in tr.features : Suffix(m) = ".feature"}}
    \cup {<<"claude_tasks/behaviors/step_definitions", n>> :
             n \in {m \in tr.steps : Suffix(m) = ".js"}}

NameInSource(path) ==
    CASE path = ACTIVE_TASKS -> "active/ACTIVE_TASKS.md"
      [] path = TODO_LIST -> "todo/TODO_LIST.md"
      [] path = TODO_CMD -> "todo/todo.md"
      [] path = BEHAVIORS_README -> "behaviors/README.md"
      [] OTHER -> path[2]

\* The run takes the task documents from the built-in templates: it has no
\* source, or its source is a clone without a claude_tasks directory.
UsesBuiltIn == source = "none" \/ (source = "url" /\ ~ tree.sub)

\* The files the run's source of templates supplies, with their texts.
Supplied ==
    IF UsesBuiltIn THEN BuiltIn(today)
    ELSE [path \in SuppliedBy(tree) |-> << "source copy of ", NameInSource(path), NL >>]

\* C8 as stated: after a run that ended with exit code 0, every directory of the
\* layout exists, and so does every file the run's source supplies, and
\* CLAUDE.md, that did not exist when the run started.
C8_PerPathCreation ==
    Succeeded =>
        /\ Range(directories) \subseteq dirs
        /\ \A path \in (DOMAIN Supplied \cup {CLAUDE_MD}) \ DOMAIN files0 :
              path \in DOMAIN files

\* C8 as amended: the claude_tasks installation is decided as a whole.  After a
\* run that ended with exit code 0: CLAUDE.md exists; when claude_tasks/ did not
\* exist at the start or --force is set, every directory of the layout and
\* every file the run's source supplies exists; when claude_tasks/ existed and
\* --force is not set, no directory was created and none of these files was
\* created.  In every state each file of the layout lies in a directory that
\* exists.
C8_InstallAsAWhole ==
    /\ Succeeded =>
          /\ CLAUDE_MD \in DOMAIN files
          /\ ("claude_tasks" \notin dirs0 \/ force) =>
                /\ Range(directories) \subseteq dirs
                /\ DOMAIN Supplied \subseteq DOMAIN files
          /\ ("claude_tasks" \in dirs0 /\ ~ force) =>
                /\ dirs = dirs0
                /\ \A path \in DOMAIN Supplied \ DOMAIN files0 :
                      path \notin DOMAIN files
    /\ \A path \in DOMAIN files : path[1] \in dirs \cup {"."}

\* A run without --force has ended with exit code 0 on a target that had a
\* claude_tasks/ without ACTIVE_TASKS.md, which its source supplies: the
\* document is still missing.
C8_Witness ==
    /\ Succeeded
    /\ ~ force
    /\ "claude_tasks" \in dirs0
    /\ ACTIVE_TASKS \in DOMAIN Supplied
    /\ ACTIVE_TASKS \notin DOMAIN files
    /\ CLAUDE_MD \notin DOMAIN files0

\* The text is one the installer writes to the path.
InstallerText(path, content) ==
    IF path = CLAUDE_MD
    THEN \/ content \in {ClaudeMdTemplate, << "source copy of ", "CLAUDE.md", NL >>}
         \/ IsPrefix(reference_section, content)
    ELSE IF path = GITIGNORE
    THEN IsSuffix(<< NL, GITIGNORE_HEADER, NL, "*.backup", NL,
                     "CLAUDE.md.backup", NL >>, content)
    ELSE \/ path \in DOMAIN BuiltIn(today) /\ content = BuiltIn(today)[path]
         \/ content = << "source copy of ", NameInSource(path), NL >>

\* C9 as stated: after a run with --force that ended with exit code 0, every
\* file that an earlier run wrote exists and holds a text of the installer.
C9_ForceRewrite ==
    (Succeeded /\ force) =>
        \A path \in created :
            path \in DOMAIN files /\ InstallerText(path, files[path])

\* C9 as amended: after a run with --force that ended with exit code 0, every
\* file the run's source supplies holds the text of that source; every other
\* file that existed, CLAUDE.md and .gitignore aside, is as it was; a CLAUDE.md
\* that existed is as it was when it held the marker text and else begins with
\* the reference block; a .gitignore that existed has kept its content as the
\* head of the new one.
C9_ForceRewritesSupplied ==
    (Succeeded /\ force) =>
        /\ \A path \in DOMAIN Supplied :
              path \in DOMAIN files /\ files[path] = Supplied[path]
        /\ \A path \in DOMAIN files0 \ (DOMAIN Supplied \cup {CLAUDE_MD, GITIGNORE}) :
              path \in DOMAIN files /\ files[path] = files0[path]
        /\ CLAUDE_MD \in DOMAIN files0 =>
              IF MarkerText(files0[CLAUDE_MD])
              THEN files[CLAUDE_MD] = files0[CLAUDE_MD]
              ELSE IsPrefix(reference_section, files[CLAUDE_MD])
        /\ GITIGNORE \in DOMAIN files0 =>
              /\ GITIGNORE \in DOMAIN files
              /\ IsPrefix(files0[GITIGNORE], files[GITIGNORE])

\* A run with --force has ended with exit code 0 and has rewritten an
\* ACTIVE_TASKS.md that an earlier run wrote and the user edited since.
C9_Witness ==
    /\ Succeeded
    /\ force
    /\ ACTIVE_TASKS \in created
    /\ ACTIVE_TASKS \in DOMAIN files0
    /\ files0[ACTIVE_TASKS] = UserText
    /\ ACTIVE_TASKS \in DOMAIN Supplied
    /\ files[ACTIVE_TASKS] = Supplied[ACTIVE_TASKS]

\* The run was started with the default flags on an empty target.
DefaultOnEmpty ==
    /\ pc = "exit"
    /\ arg_source = "none"
    /\ ~ force
    /\ ~ no_git
    /\ files0 = EmptyFiles
    /\ dirs0 = {}

---------------------------------------------------------------------------
\* Claims on the cleanup, the sources, the orchestrator and the errors.

\* The steps of _copy_from_source and of _clone_dashboard that lie between the
\* creation of the scratch directory and the end of the finally block.
InCloneStep == pc \in {"copy_files", "finally", "blocked"}
InDashboardCloneStep == d_pc \in {"checkout", "copy", "finally", "blocked"}

\* C11: in the task installer and in the dashboard installer the scratch
\* directory of the clone exists only inside the clone step: when the step has
\* been left, after a clone that succeeded, failed or timed out or a copy that
\* raised, the directory is gone.
C11_ScratchCleanup ==
    /\ temp_dir => InCloneStep
    /\ d_temp_dir => InDashboardCloneStep

\* A dashboard run whose clone timed out has ended without a scratch directory.
C11_Witness ==
    /\ d_pc = "exit"
    /\ d_exit_code = 1
    /\ \E i \in 1..Len(d_ops) : d_ops[i] = Op("git clone", "TimeoutExpired")
    /\ ~ d_temp_dir

\* The core documents: those the built-in templates hold.
CoreDocuments ==
    { <<"claude_tasks", "QUICK_REFERENCE.md">>,
      <<"claude_tasks", "PRINCIPLES_QUICK_CARD.md">>,
      <<"claude_tasks", "BDD_PROCESS.md">>,
      <<"claude_tasks/active", "ACTIVE_TASKS.md">> }

\* The run installed claude_tasks: the directory was missing, or --force is set.
InstalledClaudeTasks == "claude_tasks" \notin dirs0 \/ force

\* C12: after a run that installed claude_tasks and ended with exit code 0,
\* every core document exists in the target, whatever the source held.
C12_FallbackToBuiltIn ==
    (Succeeded /\ InstalledClaudeTasks) => CoreDocuments \subseteq DOMAIN files

\* The same for the runs whose source is none, or a clone without a
\* claude_tasks directory, or holds every document.
C12_FallbackWithoutSourceDirectory ==
    (Succeeded /\ InstalledClaudeTasks /\ (UsesBuiltIn \/ tree = TreeFull)) =>
        CoreDocuments \subseteq DOMAIN files

\* The run wrote a document from the built-in templates.
UsedBuiltInTemplates == \E path \in DOMAIN BuiltIn(today) : <<"Created", path>> \in out

\* The explicit --source is given and holds a claude_tasks directory; the
\* installer script has a claude_tasks directory beside it.
ExplicitAvailable == arg_source # "none" /\ tree.exists /\ tree.sub
CoLocatedAvailable == shipped.sub

\* C13: a run that was given --source works from it; a run without --source
\* works from the co-located claude_tasks directory when there is one; and
\* documents are written from the built-in templates only when neither an
\* explicit source with a claude_tasks directory nor the co-located directory
\* is available.
C13_SourcePriority ==
    pc # "idle" =>
        /\ arg_source # "none" => source = arg_source
        /\ (arg_source = "none" /\ CoLocatedAvailable) => source = "script_dir"
        /\ UsedBuiltInTemplates => (~ ExplicitAvailable /\ ~ CoLocatedAvailable)

\* The same, but for the clone that has no claude_tasks directory: there the
\* built-in templates are used, whether or not a co-located directory exists.
C13_SourcePriorityButEmptyClone ==
    pc # "idle" =>
        /\ arg_source # "none" => source = arg_source
        /\ (arg_source = "none" /\ CoLocatedAvailable) => source = "script_dir"
        /\ UsedBuiltInTemplates =>
              \/ ~ ExplicitAvailable /\ ~ CoLocatedAvailable
              \/ arg_source = "url" /\ ~ tree.sub

\* An orchestrator run is under way or has ended.
Orchestrated == o_runs > 0
OrchestratorEnded == Orchestrated /\ o_pc = "exit"

\* Both installers are selected, and both installer scripts exist.
BothSelected == ~ claude_only /\ ~ dashboard_only
BothScripts == claude_installer /\ dashboard_installer

\* C14: in an orchestrator run with both installers selected and both scripts
\* present, the dashboard installer is called only when the call of the task
\* installer has returned and no task installer is running; and the run does
\* not end before both were called, in this order, whatever the task
\* installer returned.
C14_NoShortCircuit ==
    (Orchestrated /\ BothSelected /\ BothScripts) =>
        /\ (\E i \in 1..Len(o_started) : o_started[i] = "dashboard") =>
              /\ o_started = << "claude", "dashboard" >>
              /\ Len(o_results) >= 1
              /\ ~ OrchestratorBetweenRuns => BetweenRuns
        /\ o_pc \in {"summary", "exit"} =>
              /\ o_started = << "claude", "dashboard" >>
              /\ Len(o_results) = 2

\* An orchestrator run has ended in which the task installer exited with code
\* 1 and the dashboard installer was then run and exited with code 0.
C14_Witness ==
    /\ OrchestratorEnded
    /\ BothSelected
    /\ runs = 1
    /\ exit_code = 1
    /\ d_runs = 1
    /\ d_pc = "exit"
    /\ d_exit_code = 0
    /\ o_results = << FALSE, TRUE >>

\* Every sub-installer the orchestrator called returned success: it was
\* launched and exited with code 0.
AllSucceeded == \A i \in 1..Len(o_results) : o_results[i]

\* C15 as stated: the orchestrator exits with code 0 if and only if every
\* sub-installer it ran exited with code 0.
C15_ExitCode ==
    OrchestratorEnded => (o_exit_code = 0 <=> AllSucceeded)

\* C15 as amended: the orchestrator exits with code 0 if and only if it got
\* past its checks (not both --claude-only and --dashboard-only, and both
\* installer scripts present) and every sub-installer it ran exited with code
\* 0; else it exits with code 1.
C15_ExitCodeAfterChecks ==
    OrchestratorEnded =>
        /\ o_exit_code \in {0, 1}
        /\ o_exit_code = 0 <=>
              /\ ~ (claude_only /\ dashboard_only)
              /\ BothScripts
              /\ AllSucceeded
        /\ (~ (claude_only /\ dashboard_only) /\ BothScripts) =>
              /\ Len(o_results) = Len(o_started)
              /\ Len(o_started) = (IF claude_only \/ dashboard_only THEN 1 ELSE 2)

\* An orchestrator run has ended with exit code 1 in which the task installer
\* exited with code 0 and the dashboard installer with code 1.
C15_Witness ==
    /\ OrchestratorEnded
    /\ o_exit_code = 1
    /\ runs = 1
    /\ exit_code = 0
    /\ d_runs = 1
    /\ d_exit_code = 1
    /\ o_results = << TRUE, FALSE >>

\* C16: an orchestrator run that misses an installer script has started no
\* sub-installer and is at its check or has ended with exit code 1; the step
\* from the check ends the run, and it starts no installer and leaves the
\* target as it was.
C16_PrerequisiteCheck ==
    [][/\ (Orchestrated' /\ ~ BothScripts') =>
             /\ o_started' = << >>
             /\ o_pc' \in {"validate", "exit"}
             /\ o_pc' = "exit" => o_exit_code' = 1
       /\ (o_pc = "validate" /\ ~ BothScripts) =>
             /\ o_pc' = "exit"
             /\ BetweenRuns /\ DashboardBetweenRuns
             /\ UNCHANGED << files, dirs, dashboard_dir, pc, d_pc, runs, d_runs >>]_vars

\* An orchestrator run for both installers has ended that missed the
\* dashboard installer script.
C16_Witness ==
    /\ OrchestratorEnded
    /\ BothSelected
    /\ claude_installer
    /\ ~ dashboard_installer
    /\ o_exit_code = 1
    /\ o_started = << >>

\* The step ends a run of the task installer with exit code 1.
Aborts == pc \notin {"idle", "exit"} /\ pc' = "exit" /\ exit_code' = 1

\* The file at path is as it was when the run started: absent, or of the same
\* content.
AsAtStart(fs, path) ==
    IF path \in DOMAIN files0
    THEN path \in DOMAIN fs /\ fs[path] = files0[path]
    ELSE path \notin DOMAIN fs

\* C17: an error raised in a step of a task-installer run ends the run with
\* exit code 1 and without a later step.  An error raised inside
\* _copy_from_source is followed by the finally block alone, which changes no
\* file and ends the run; a run that ends with exit code 1 in or before the
\* copy step has left CLAUDE.md and .gitignore as they were at its start, one
\* that ends so in the CLAUDE.md step has left .gitignore so; and the step
\* that ends the run removes no file and no directory and changes no file
\* written before.
C17_FatalErrorsAbort ==
    [][/\ raised' => pc' = "finally"
       /\ (pc = "finally" /\ raised) =>
             (Aborts /\ files' = files /\ dirs' = dirs)
       /\ Aborts =>
             /\ dirs \subseteq dirs'
             /\ \A path \in DOMAIN files : path \in DOMAIN files'
             /\ pc \in {"templates", "finally"} =>
                   (AsAtStart(files', CLAUDE_MD) /\ AsAtStart(files', GITIGNORE))
             /\ pc = "claude_md" => AsAtStart(files', GITIGNORE)
             /\ pc = "gitignore" => files' = files]_vars

\* A run with --source on an empty target has ended with exit code 1 after an
\* error in the copy step: documents it copied are there, CLAUDE.md and
\* .gitignore are not.
C17_Witness ==
    /\ pc = "exit"
    /\ exit_code = 1
    /\ arg_source = "local"
    /\ ~ no_git
    /\ files0 = EmptyFiles
    /\ <<"claude_tasks", "QUICK_REFERENCE.md">> \in DOMAIN files
    /\ "claude_tasks" \in dirs
    /\ CLAUDE_MD \notin DOMAIN files
    /\ GITIGNORE \notin DOMAIN files

\* The step leaves the target's .gitignore as it is: absent, or of the same
\* content.
GitignoreUntouched ==
    /\ (GITIGNORE \in DOMAIN files') = (GITIGNORE \in DOMAIN files)
    /\ GITIGNORE \in DOMAIN files => files'[GITIGNORE] = files[GITIGNORE]

\* C18: no step of a task-installer run with --no-git, of a dashboard-installer
\* run with --no-git or of an orchestrator run with --no-git (the steps of the
\* installers it starts included) creates or changes the target's .gitignore.
C18_NoGitFrame ==
    [][(\/ ~ BetweenRuns /\ no_git
        \/ ~ DashboardBetweenRuns /\ d_no_git
        \/ ~ OrchestratorBetweenRuns /\ o_no_git) => GitignoreUntouched]_vars

\* An orchestrator run with --no-git on a target without .gitignore has run
\* both installers, both with exit code 0, and there is still no .gitignore.
C18_Witness ==
    /\ o_pc = "exit"
    /\ o_no_git
    /\ o_started = << "claude", "dashboard" >>
    /\ o_exit_code = 0
    /\ no_git /\ d_no_git
    /\ CLAUDE_MD \in DOMAIN files
    /\ dashboard_dir.exists
    /\ GITIGNORE \notin DOMAIN files

\* The external commands of the dashboard run that ended otherwise than with
\* exit code 0.
FailedOps(ops) ==
    {ops[i].op : i \in {j \in 1..Len(ops) : ops[j].result # "0"}}

RanOps(ops) == {ops[i].op : i \in 1..Len(ops)}

\* C19: in a dashboard run, once "npm install" has failed, timed out or was
\* not found, the run is at the .gitignore step or has ended with exit code 0,
\* and its next step ends it with exit code 0, with the dashboard entries in
\* .gitignore unless --no-git was given.  Once "git clone" has failed or timed
\* out, the run is at the finally block or has ended with exit code 1, npm
\* was not run, test-dashboard-module is what the run found (or nothing, when
\* --force removed it), neither copied nor patched, and the step that ends
\* the run changes no file of the target.
C19_DashboardFailureSplit ==
    [][/\ "npm install" \in FailedOps(d_ops') =>
             /\ d_pc' \in {"gitignore", "exit"}
             /\ d_pc' = "exit" => d_exit_code' = 0
       /\ ("npm install" \in FailedOps(d_ops) /\ d_pc = "gitignore") =>
             /\ d_pc' = "exit" /\ d_exit_code' = 0
             /\ ~ d_no_git =>
                   /\ GITIGNORE \in DOMAIN files'
                   /\ DashboardConfigured(files'[GITIGNORE])
       /\ "git clone" \in FailedOps(d_ops') =>
             /\ d_pc' \in {"finally", "exit"}
             /\ d_pc' = "exit" => d_exit_code' = 1
             /\ "npm install" \notin RanOps(d_ops')
             /\ dashboard_dir' = RemoveExisting(d_dir0', d_force')
       /\ ("git clone" \in FailedOps(d_ops) /\ d_pc = "finally") =>
             (d_pc' = "exit" /\ files' = files)]_vars

\* A dashboard run whose "npm install" timed out has ended with exit code 0,
\* with the dashboard copied and the dashboard entries in a .gitignore that
\* had none before.
C19_Witness ==
    /\ d_pc = "exit"
    /\ d_exit_code = 0
    /\ Op("npm install", "TimeoutExpired") \in {d_ops[i] : i \in 1..Len(d_ops)}
    /\ dashboard_dir.exists
    /\ GITIGNORE \in DOMAIN files
    /\ DashboardConfigured(files[GITIGNORE])
    /\ GITIGNORE \notin DOMAIN d_files0

\* A dashboard run whose "git clone" timed out has ended with exit code 1 and
\* left no test-dashboard-module and no .gitignore.
C19_CloneTimedOut ==
    /\ d_pc = "exit"
    /\ d_exit_code = 1
    /\ Op("git clone", "TimeoutExpired") \in {d_ops[i] : i \in 1..Len(d_ops)}
    /\ ~ d_no_git
    /\ ~ dashboard_dir.exists
    /\ GITIGNORE \notin DOMAIN files

\* C20: no installer run waits without bound for an external command: neither
\* the task installer nor the dashboard installer is ever in a call of a
\* command that has no timeout and does not return.
C20_BoundedWaits == pc # "blocked" /\ d_pc # "blocked"

\* C21: in a dashboard run the SSH probe comes before the clone, and once the
\* probe has ended the clone address is the SSH remote if and only if the
\* probe ended with exit code 0 or 1; with any other exit code, a timeout or
\* an error at its launch it is the HTTPS remote.
C21_SshProbeDecision ==
    /\ "git clone" \in RanOps(d_ops) => d_ops[1].op = "ssh -T"
    /\ \A i \in 1..Len(d_ops) :
          d_ops[i].op = "ssh -T" =>
             /\ clone_url \in {"ssh", "https"}
             /\ clone_url = "ssh" <=> d_ops[i].result \in {"0", "1"}

\* A dashboard run whose SSH probe ended with exit code 1 has cloned from the
\* SSH remote.
C21_Witness ==
    /\ Len(d_ops) >= 2
    /\ d_ops[1] = Op("ssh -T", "1")
    /\ d_ops[2] = Op("git clone", "0")
    /\ clone_url = "ssh"

\* A dashboard run whose SSH probe timed out has cloned from the HTTPS remote.
C21_ProbeTimedOut ==
    /\ Len(d_ops) >= 2
    /\ d_ops[1] = Op("ssh -T", "TimeoutExpired")
    /\ d_ops[2] = Op("git clone", "0")
    /\ clone_url = "https"

\* No operation occurs twice among the external operations of a dashboard run.
NoRepeat(ops) ==
    \A i, j \in 1..Len(ops) : ops[i].op = ops[j].op => i = j

\* No sub-installer occurs twice among those an orchestrator run has started.
StartedOnce(started) ==
    \A i, j \in 1..Len(started) : started[i] = started[j] => i = j

\* C22: in a dashboard run no external operation (SSH probe, git clone, git
\* checkout, npm install) is run twice, and in an orchestrator run no
\* sub-installer is started twice; an installer process is started during an
\* orchestrator run only by the step that records it.  The clone step of the
\* task installer is left by the step taken in it, and a failed clone there
\* raises.  When the clone of a dashboard run has failed, over the SSH remote
\* too, the address is not changed, the run is at its finally block or has
\* ended with exit code 1, and the next step ends it.
C22_NoRetries ==
    [][/\ NoRepeat(d_ops')
       /\ StartedOnce(o_started')
       /\ (~ OrchestratorBetweenRuns /\ runs' # runs) =>
             (o_pc = "claude" /\ o_started' = Append(o_started, "claude"))
       /\ (~ OrchestratorBetweenRuns /\ d_runs' # d_runs) =>
             (o_pc = "dashboard" /\ o_started' = Append(o_started, "dashboard"))
       /\ pc = "copy" =>
             /\ pc' \in {"copy_files", "finally", "blocked"}
             /\ (source = "url" /\ ~ clone_ok /\ pc' # "blocked") =>
                   (raised' /\ pc' = "finally")
       /\ "git clone" \in FailedOps(d_ops') =>
             /\ d_pc' \in {"finally", "exit"}
             /\ d_pc' = "exit" => d_exit_code' = 1
       /\ ("git clone" \in FailedOps(d_ops) /\ d_pc = "finally") =>
             (d_pc' = "exit" /\ clone_url' = clone_url /\ d_ops' = d_ops)]_vars

\* A dashboard run whose one clone, over the SSH remote, failed has ended
\* with exit code 1.
C22_Witness ==
    /\ d_pc = "exit"
    /\ d_exit_code = 1
    /\ clone_url = "ssh"
    /\ d_ops = << Op("ssh -T", "1"), Op("git clone", "128") >>

\* The target paths the task installer names itself: the documents of
\* files_to_copy, the fixed files of the subdirectories, and the files it can
\* write from its built-in templates.
KnownTargets ==
    { <<"claude_tasks", "QUICK_REFERENCE.md">>,
      <<"claude_tasks", "PRINCIPLES_QUICK_CARD.md">>,
      <<"claude_tasks", "BDD_PROCESS.md">>,
      <<"claude_tasks", "DEVELOPMENT_PROCESS.md">>,
      <<"claude_tasks", "PAIR_PROGRAMMING_WITH_CLAUDE.md">>,
      <<"claude_tasks", "UNIFIED_PRINCIPLES.md">>,
      <<"claude_tasks", "SESSION_STARTER.md">>,
      <<"claude_tasks", "TASK_TEMPLATE.md">>,
      <<"claude_tasks/active", "ACTIVE_TASKS.md">>,
      <<"claude_tasks/todo", "TODO_LIST.md">>,
      <<"claude_tasks/todo", "todo.md">>,
      <<"claude_tasks/behaviors", "README.md">>,
      <<"claude_tasks/behaviors/features", "example.feature">>,
      <<"claude_tasks/behaviors/step_definitions", "common_steps.js">>,
      <<".claude/commands", "refresh.md">>,
      <<".claude/commands", "todo.md">>,
      <<".", "cucumber.js">>,
      <<".", "CLAUDE.md">> }

\* The target paths the run has copied a source file to.
CopiedTargets == {l[2] : l \in {m \in out : m[1] = "Copied"}}

\* C23: every file a run of the task installer copies from a source goes to a
\* target path of a fixed list of names.
C23_AllowListCopy == CopiedTargets \subseteq KnownTargets

\* The part of C23 that does not depend on the list: a source file whose
\* name matches neither a listed name nor a pattern of the copy (NOTES.md,
\* run.sh, notes.txt, helper.ts) is in the target only if the run found it
\* there.
C23_UnmatchedNeverCopied ==
    \A path \in { <<"claude_tasks", "NOTES.md">>,
                   <<".claude/commands", "run.sh">>,
                   <<"claude_tasks/behaviors/features", "notes.txt">>,
                   <<"claude_tasks/behaviors/step_definitions", "helper.ts">> } :
        path \in DOMAIN files => path \in DOMAIN files0

\* The dashboard block as the installer writes it: the comment header and the
\* entries, each with its newline.
DashboardBlock == JoinLines(dashboard_entries_to_add) \o << NL >>

\* How often a text occurs in a content.
Occurrences(content, text) ==
    Cardinality({k \in 1..Len(content) :
                    /\ k + Len(text) - 1 <= Len(content)
                    /\ SubSeq(content, k, k + Len(text) - 1) = text})

\* C24: after every step of the runs of the dashboard installer the dashboard
\* block occurs at most once in .gitignore, and no step changes a .gitignore
\* that holds the block.
C24_DashboardGitignoreConvergence ==
    [][/\ GITIGNORE \in DOMAIN files' =>
             Occurrences(files'[GITIGNORE], DashboardBlock) <= 1
       /\ (/\ GITIGNORE \in DOMAIN files
           /\ Occurrences(files[GITIGNORE], DashboardBlock) = 1) =>
             /\ GITIGNORE \in DOMAIN files'
             /\ files'[GITIGNORE] = files[GITIGNORE]]_vars

\* A second run without --no-git has ended on the .gitignore that the first
\* run created: it found the entries and the file is still the block alone.
C24_Witness ==
    /\ d_runs = 2
    /\ d_pc = "exit"
    /\ ~ d_no_git
    /\ <<"already configured", GITIGNORE>> \in d_out
    /\ GITIGNORE \in DOMAIN files
    /\ files[GITIGNORE] = DashboardBlock
    /\ d_files0 = files

\* C25: in a dashboard run with --offline that found a test-dashboard-module,
\* the directory stays as the run found it and no clone is made, whatever the
\* other flags are.
C25_OfflineMode ==
    (d_pc # "idle" /\ d_offline /\ d_dir0.exists) =>
        /\ dashboard_dir = d_dir0
        /\ "git clone" \notin RanOps(d_ops)

\* The same for the runs without --force.
C25_OfflineModeWithoutForce ==
    (d_pc # "idle" /\ d_offline /\ ~ d_force /\ d_dir0.exists) =>
        /\ dashboard_dir = d_dir0
        /\ "git clone" \notin RanOps(d_ops)

\* The content begins with the text.
BeginsWith(content, text) ==
    Len(content) >= Len(text) /\ SubSeq(content, 1, Len(text)) = text

\* What the reference block begins with: the title and its heading.
ReferenceBlock ==
    << "# CLAUDE.md", NL, NL, "## Claude Development Process", NL >>

\* CLAUDE.md is there and begins with what the installer writes.
HasBlock(fs) == CLAUDE_MD \in DOMAIN fs /\ BeginsWith(fs[CLAUDE_MD], ReferenceBlock)
BuiltInClaudeMd ==
    << "# CLAUDE.md", NL, NL,
       "This project follows the Claude Task Management System with ", "BDD+TDD",
       " methodology:", NL,
       "- ", "claude_tasks", "/QUICK_REFERENCE.md - Quick commands", NL,
       "[TODO: Add project description]", NL >>
HasBuiltIn(fs) == CLAUDE_MD \in DOMAIN fs /\ fs[CLAUDE_MD] = BuiltInClaudeMd

\* C26: CLAUDE.md never holds the reference block twice; a step that changes
\* a CLAUDE.md which holds the block is an edit of the user's, never a step
\* of a run; and a CLAUDE.md that begins with the block, or is the built-in
\* template, holds both 'claude_tasks' and 'BDD+TDD' and is left unchanged by
\* every step but an edit of the user's.
C26_ReferenceBlockOnce ==
    [][/\ CLAUDE_MD \in DOMAIN files' =>
             Occurrences(files'[CLAUDE_MD], ReferenceBlock) <= 1
       /\ (HasBlock(files) \/ HasBuiltIn(files)) =>
             /\ Contains(files[CLAUDE_MD], "claude_tasks")
             /\ Contains(files[CLAUDE_MD], "BDD+TDD")
             /\ edits' = edits =>
                   (CLAUDE_MD \in DOMAIN files' /\ files'[CLAUDE_MD] = files[CLAUDE_MD])
       /\ (HasBlock(files') /\ ~ HasBlock(files)) =>
             /\ pc = "claude_md"
             /\ CLAUDE_MD \in DOMAIN files
             /\ Occurrences(files[CLAUDE_MD], ReferenceBlock) = 0]_vars

\* A second run with --force, with no edit in between, has ended on the
\* CLAUDE.md that the first run prepended the block to: the file is as the
\* first run left it.
C26_Witness ==
    /\ runs = 2
    /\ edits = 0
    /\ pc = "exit"
    /\ force
    /\ prev.ran
    /\ HasBlock(files)
    /\ ~ HasBuiltIn(files)
    /\ CLAUDE_MD \in DOMAIN files0
    /\ files0[CLAUDE_MD] = files[CLAUDE_MD]
    /\ <<"already references", CLAUDE_MD>> \in out

\* C27: in a dashboard run with --force that found a test-dashboard-module,
\* the directory is gone when the clone is attempted; and once the clone has
\* failed or timed out there is no test-dashboard-module, up to the end of the
\* run, which is with exit code 1.
C27_ReinstallRemovesFirst ==
    [][(d_force' /\ d_dir0'.exists) =>
          /\ d_pc' \in {"ssh", "clone"} => ~ dashboard_dir'.exists
          /\ (d_pc = "clone" /\ d_pc' # "clone") =>
                (~ dashboard_dir.exists /\ "git clone" \in RanOps(d_ops'))
          /\ "git clone" \in FailedOps(d_ops') =>
                /\ dashboard_dir' = NoDashboard
                /\ d_pc' \in {"finally", "exit"}
                /\ d_pc' = "exit" => d_exit_code' = 1]_vars

\* A run with --force on an installed test-dashboard-module has ended with
\* exit code 1 after its clone timed out: the directory is gone.
C27_Witness ==
    /\ d_pc = "exit"
    /\ d_exit_code = 1
    /\ d_force
    /\ d_dir0 = InstalledDashboard
    /\ Op("git clone", "TimeoutExpired") \in {d_ops[k] : k \in 1..Len(d_ops)}
    /\ dashboard_dir = NoDashboard

\* The run before this one, with nothing in between, aborted: it ended with
\* exit code 1.
AfterAbortedRun == prev.ran /\ prev.exit_code = 1

\* The files of the target but CLAUDE.md, its backup and .gitignore.
TaskFiles(fs) == DOMAIN fs \ {CLAUDE_MD, CLAUDE_MD_BACKUP, GITIGNORE}

\* C28: a run that follows a run aborted in the copy step finds claude_tasks/
\* existing.  Without --force its first step skips the installation of
\* claude_tasks, and at every later point of the run the files of the target
\* other than CLAUDE.md, its backup and .gitignore are those the run found:
\* no task document is written.  With --force its first step starts the
\* installation.
C28_FailedInstallNotRepaired ==
    [][AfterAbortedRun' =>
          /\ "claude_tasks" \in dirs'
          /\ pc' # "idle" => claude_tasks_exists'
          /\ (pc' # "idle" /\ ~ force') =>
                /\ pc' \in {"run", "claude_md", "gitignore", "exit"}
                /\ TaskFiles(files') = TaskFiles(files0')
                /\ \A path \in TaskFiles(files') : files'[path] = files0'[path]
                /\ pc' = "exit" => exit_code' = 0
          /\ (pc = "run" /\ pc' # "run" /\ force) => pc' \in {"templates", "copy"}]_vars

\* A run without --force has ended with exit code 0 after a run with a
\* --source path that does not exist: claude_tasks/ is there and holds none of
\* the core documents.
C28_Witness ==
    /\ AfterAbortedRun
    /\ prev.arg_source = "local"
    /\ ~ prev.tree.exists
    /\ pc = "exit"
    /\ exit_code = 0
    /\ ~ force
    /\ "claude_tasks" \in dirs
    /\ CoreDocuments \cap DOMAIN files = {}
    /\ <<"Skipping (already exists)", <<".", "claude_tasks">>>> \in out

\* The content after its first line: what follows the first newline, and
\* nothing when the first line is the whole content.
RECURSIVE AfterFirstLine(_)
AfterFirstLine(content) ==
    IF Len(content) = 0 THEN << >>
    ELSE IF Head(content) = NL THEN Tail(content)
    ELSE AfterFirstLine(Tail(content))

\* The step prepends the reference block to an existing CLAUDE.md.
Prepends ==
    /\ pc = "claude_md"
    /\ CLAUDE_MD \in DOMAIN files
    /\ <<"Updated", CLAUDE_MD>> \in out'

\* What is left of the new CLAUDE.md behind the reference block.
KeptSuffix ==
    SubSeq(files'[CLAUDE_MD], Len(reference_section) + 1, Len(files'[CLAUDE_MD]))

\* C29: when a step prepends the reference block to a CLAUDE.md, the new file
\* is the block followed by the old content without its first line if the old
\* content begins with '# CLAUDE.md', and by the whole old content if not.
C29_FirstLineRemoval ==
    [][Prepends =>
          /\ BeginsWith(files'[CLAUDE_MD], reference_section)
          /\ KeptSuffix = IF files[CLAUDE_MD][1] = "# CLAUDE.md"
                          THEN AfterFirstLine(files[CLAUDE_MD])
                          ELSE files[CLAUDE_MD]]_vars

\* The same for the old contents that hold a newline or do not begin with
\* '# CLAUDE.md'.
C29_FirstLineRemovalWithNewline ==
    [][(Prepends /\ (Contains(files[CLAUDE_MD], NL)
                       \/ files[CLAUDE_MD][1] # "# CLAUDE.md")) =>
          /\ BeginsWith(files'[CLAUDE_MD], reference_section)
          /\ KeptSuffix = IF files[CLAUDE_MD][1] = "# CLAUDE.md"
                          THEN AfterFirstLine(files[CLAUDE_MD])
                          ELSE files[CLAUDE_MD]]_vars

\* A run has prepended the block to a CLAUDE.md whose first line was
\* '# CLAUDE.md for project X': the line is gone and the rest is kept.
C29_LongFirstLineDropped ==
    /\ pc \in {"gitignore", "exit"}
    /\ <<"Updated", CLAUDE_MD>> \in out
    /\ files0[CLAUDE_MD] = << "# CLAUDE.md", " for project X", NL, "Existing content", NL >>
    /\ files[CLAUDE_MD] = reference_section \o << "Existing content", NL >>

\* One installer is selected alone and the script of the other one is missing.
OtherScriptMissing(co, do, ci, di) ==
    \/ co /\ ~ do /\ ~ di
    \/ do /\ ~ co /\ ~ ci

\* C30: an orchestrator run with --claude-only whose dashboard installer
\* script is missing, or with --dashboard-only whose task installer script is
\* missing, has started no sub-installer and is at its check or has ended with
\* exit code 1; the step from the check ends the run and starts no installer.
C30_CheckCoversBothScripts ==
    [][/\ (Orchestrated' /\ OtherScriptMissing(claude_only', dashboard_only',
                                               claude_installer',
                                               dashboard_installer')) =>
             /\ o_started' = << >>
             /\ o_pc' \in {"validate", "exit"}
             /\ o_pc' = "exit" => o_exit_code' = 1
       /\ (o_pc = "validate" /\ OtherScriptMissing(claude_only, dashboard_only,
                                                   claude_installer,
                                                   dashboard_installer)) =>
             /\ o_pc' = "exit"
             /\ UNCHANGED << pc, d_pc, runs, d_runs >>]_vars

\* An orchestrator run with --claude-only has ended with exit code 1 and
\* without a sub-installer started: the task installer script was there, the
\* dashboard installer script was missing.
C30_Witness ==
    /\ OrchestratorEnded
    /\ claude_only /\ ~ dashboard_only
    /\ claude_installer /\ ~ dashboard_installer
    /\ o_exit_code = 1
    /\ o_started = << >>
    /\ o_results = << >>

=============================================================================
